---- MODULE Spec2Model ----
(***************************************************************************)
(* FragMap grid pipeline of the SILCS FragMaps demo: the text parsers      *)
(* (native .map and OpenDX), the centre-to-origin conversions, the load    *)
(* pipeline with its validation, and the grid-to-sphere samplers.          *)
(*                                                                         *)
(* Numbers.  JavaScript numbers are modelled in fixed point: the integer n *)
(* stands for n/100 (1.0 is 100, the default spacing 0.8 is 80).  Counts   *)
(* and grid indices are plain integers.  Infinity, -Infinity and NaN are   *)
(* three reserved integers; every comparison and every arithmetic helper   *)
(* below treats them as JavaScript does.  Grid values are drawn from       *)
(* multiples of 0.25, which a Float32Array stores exactly.                 *)
(*                                                                         *)
(* Text.  A file is a sequence of lines, a line a sequence of whitespace-  *)
(* separated tokens, a token either a numeral or a word.                   *)
(***************************************************************************)
EXTENDS Integers, Sequences, FiniteSets, TLC

VARIABLES
    pc,            \* position in the pipeline under study
    format,        \* "map" or "dx": which parser the text is meant for;
                   \* "none" when no text is served
    fileContent,   \* the raw text, a sequence of lines
    fragMapData,   \* what the parser / loader returned (or NoData)
    volumeOrigin,  \* origin computed by calculateGridOrigin (or <<>>)
    dxContent,     \* the DX text convertToDx wrote for the .map file, if any
    config,        \* sampler configuration (isoValue, thresholdMode, ...)
    sampler,       \* which sampler produced `spheres`, and its options
    spheres,       \* the sampler's output
    binary,        \* what /assets/fragmaps-binary serves for the FragMap
    call,          \* the call under study: its callee and the arguments that
                   \* the variables above do not hold (spheres, residues,
                   \* options of the region filter)
    previous,      \* what the preceding call of the same operation returned,
                   \* with the configuration it was given
    regionFilter,  \* the object createRegionFilter returned (or NoFilter)
    regionDistance, \* what getMaxDistanceForRegion returned (or <<>>)
    statistics,     \* what calculateGridStatistics returned (or <<>>)
    heap,  \* the arrays allocated so far, by reference
    handedOut,  \* the arrays handed out so far, with their content then
    manager,  \* FragMapManager: activeFragMaps, the refs and the calls in flight
    viewerWrapper  \* the 3Dmol viewer wrapper: its shapes and shapeIds

\* the variables the parsers, samplers and loaders never touch
restVars == <<regionFilter, regionDistance, statistics, heap, handedOut, manager, viewerWrapper>>

vars == <<pc, format, fileContent, fragMapData, volumeOrigin, dxContent,
          config, sampler, spheres, binary, call, previous,
          regionFilter, regionDistance, statistics, heap, handedOut, manager, viewerWrapper>>

----------------------------------------------------------------------------
(* Numbers *)

Unit == 10 * 10
PosInf == Unit * Unit * Unit
NegInf == 0 - PosInf
NaN == PosInf + 1

IsNaN(v) == v = NaN
IsFinite(v) == v # NaN /\ v # PosInf /\ v # NegInf

\* a <= b and a >= b as JavaScript evaluates them (false when either is NaN)
LE(a, b) == ~IsNaN(a) /\ ~IsNaN(b) /\ a <= b
GE(a, b) == ~IsNaN(a) /\ ~IsNaN(b) /\ a >= b

\* a + b and a - b for fixed-point operands
Add(a, b) ==
    IF IsNaN(a) \/ IsNaN(b) THEN NaN
    ELSE IF a = PosInf THEN (IF b = NegInf THEN NaN ELSE PosInf)
    ELSE IF a = NegInf THEN (IF b = PosInf THEN NaN ELSE NegInf)
    ELSE IF ~IsFinite(b) THEN b
    ELSE a + b

Neg(a) == IF IsNaN(a) THEN NaN ELSE 0 - a
Sub(a, b) == Add(a, Neg(b))

\* k * a for a plain integer k and a fixed-point a
Times(k, a) ==
    IF IsNaN(a) \/ IsNaN(k) THEN NaN
    ELSE IF ~IsFinite(a) THEN (IF k = 0 THEN NaN ELSE IF k > 0 THEN a ELSE Neg(a))
    ELSE k * a

\* a / 2 for a fixed-point a (the model's spacings keep this exact)
Half(a) ==
    IF ~IsFinite(a) THEN a
    ELSE IF a >= 0 THEN a \div 2 ELSE 0 - ((0 - a) \div 2)

\* JavaScript truthiness of a number: 0 and NaN are falsy
Truthy(v) == v # 0 /\ ~IsNaN(v)

\* An optional property of a JS object: <<>> is undefined, <<v>> holds v.
Undefined == <<>>
Some(v) == <<v>>
IsDefined(p) == p # <<>>

\* `p || d` for an optional numeric property p
OrDefault(p, d) == IF IsDefined(p) /\ Truthy(p[1]) THEN p[1] ELSE d

----------------------------------------------------------------------------
(* Tokens and lines *)

Num(v) == [t |-> "num", w |-> "", n |-> v]
Word(s) == [t |-> "word", w |-> s, n |-> 0]

IsNum(tok) == tok.t = "num"

\* parseFloat(token): a numeral gives its value, a word gives NaN
parseFloat(tok) == IF IsNum(tok) THEN tok.n ELSE NaN

\* parseInt(token): the integer part, as a plain integer
parseInt(tok) ==
    IF IsNum(tok) /\ IsFinite(tok.n)
    THEN (IF tok.n >= 0 THEN tok.n \div Unit ELSE 0 - ((0 - tok.n) \div Unit))
    ELSE NaN

\* /^\s*[\d\.\-]/ on a trimmed line: the first token starts like a number.
\* "Infinity" and "NaN" start with a letter.
LeadingNumeric(line) ==
    /\ Len(line) >= 1
    /\ IsNum(line[1])
    /\ line[1].n # PosInf
    /\ ~IsNaN(line[1].n)

\* trimmed.startsWith('#') || trimmed === ''
IsSkipped(line) == line = <<>> \/ line[1] = Word("#")

\* /(\w+)\s+(.+)/ is unanchored: it matches every line that has a word
\* character followed by whitespace, so every line of two or more tokens
\* (all tokens of the model end in a letter or a digit).
HeaderMatch(line) == Len(line) >= 2

\* match[1]: for a word the word itself; for a numeral such as "1.0" the
\* digit run that ends the first token, written "0" here.
HeaderKey(line) == IF IsNum(line[1]) THEN "0" ELSE line[1].w

\* match[2], as tokens
HeaderValue(line) == Tail(line)

\* !isNaN(value) && value !== '' : the value text is one numeral
IsNumericText(value) == Len(value) = 1 /\ IsNum(value[1]) /\ ~IsNaN(value[1].n)

\* the numeric tokens of a line, parsed: split, map(parseFloat), filter(!isNaN)
RECURSIVE LineNumbers(_)
LineNumbers(line) ==
    IF line = <<>> THEN <<>>
    ELSE LET v == parseFloat(Head(line))
         IN  (IF IsNaN(v) THEN <<>> ELSE <<v>>) \o LineNumbers(Tail(line))

\* new Float32Array(values): exact on the model's value domain
Float32Array(values) == values

\* `new Float32Array(n); set(values)` : values followed by zeros
PadZeros(values, n) ==
    [i \in 1..n |-> IF i <= Len(values) THEN values[i] ELSE 0]

\* Array.prototype.slice(0, n): a negative n counts from the end
Slice(values, n) ==
    IF n >= 0 THEN SubSeq(values, 1, IF n < Len(values) THEN n ELSE Len(values))
    ELSE SubSeq(values, 1, IF Len(values) + n > 0 THEN Len(values) + n ELSE 0)

----------------------------------------------------------------------------
(* gridInfo: the duck-typed header object both parsers fill in *)

NoGridInfo ==
    [nx |-> Undefined, ny |-> Undefined, nz |-> Undefined,
     origin_x |-> Undefined, origin_y |-> Undefined, origin_z |-> Undefined,
     grid_spacing |-> Undefined,
     other |-> <<>>]

\* gridInfo[key] = value for a key the parser does not interpret
PutEntry(entries, key, value) ==
    IF \E i \in 1..Len(entries) : entries[i].key = key
    THEN [i \in 1..Len(entries) |->
            IF entries[i].key = key THEN [key |-> key, value |-> value]
            ELSE entries[i]]
    ELSE Append(entries, [key |-> key, value |-> value])

NoData == [status |-> "none", gridInfo |-> NoGridInfo, gridData |-> <<>>]
Thrown == [status |-> "thrown", gridInfo |-> NoGridInfo, gridData |-> <<>>]
Returned(gi, gd) == [status |-> "returned", gridInfo |-> gi, gridData |-> gd]

----------------------------------------------------------------------------
(* parseFragMapFile: the native .map parser *)

NativeDefaultDim == 40

\* one header line (the `if (headerSection)` block)
MapHeaderLine(st, line) ==
    LET key == HeaderKey(line)
        value == HeaderValue(line)
        gi == st.gridInfo
    IN  IF HeaderMatch(line)
        THEN IF key = "NELEMENTS"
             THEN IF IsNumericText(value)
                  THEN [st EXCEPT !.thrown = TRUE]  \* value is a number: value.split throws
                  ELSE IF Len(value) = 3
                       THEN [st EXCEPT !.gridInfo =
                                [gi EXCEPT !.nx = Some(parseInt(value[1])),
                                           !.ny = Some(parseInt(value[2])),
                                           !.nz = Some(parseInt(value[3]))]]
                       ELSE st
             ELSE IF key = "CENTER"
             THEN IF ~IsNumericText(value) /\ Len(value) >= 2
                  THEN IF Len(value) = 3
                       THEN [st EXCEPT !.gridInfo =
                                [gi EXCEPT !.origin_x = Some(parseFloat(value[1])),
                                           !.origin_y = Some(parseFloat(value[2])),
                                           !.origin_z = Some(parseFloat(value[3]))]]
                       ELSE st
                  ELSE [st EXCEPT !.gridInfo.other = PutEntry(@, key, value)]
             ELSE IF key = "SPACING"
             \* a SPACING text that is not one numeral stays a string in the
             \* code; the model's files always give one numeral
             THEN [st EXCEPT !.gridInfo.grid_spacing =
                      Some(IF IsNumericText(value) THEN value[1].n ELSE NaN)]
             ELSE [st EXCEPT !.gridInfo.other = PutEntry(@, key, value)]
        ELSE IF LeadingNumeric(line)
             THEN [st EXCEPT !.headerSection = FALSE]
             ELSE st

\* the `if (!headerSection)` block
MapDataLine(st, line) ==
    [st EXCEPT !.gridData = @ \o LineNumbers(line),
               !.dataLineCount = @ + 1]

\* the body of the loop over lines
MapLine(st, line) ==
    IF IsSkipped(line) THEN st
    ELSE LET h == IF st.headerSection THEN MapHeaderLine(st, line) ELSE st
         IN  IF ~h.headerSection /\ ~h.thrown THEN MapDataLine(h, line) ELSE h

RECURSIVE MapLines(_, _)
MapLines(st, lines) ==
    IF lines = <<>> \/ st.thrown THEN st
    ELSE MapLines(MapLine(st, Head(lines)), Tail(lines))

\* the loop of parseFragMapFile: header object and collected values
MapScan(content) ==
    MapLines([gridInfo |-> NoGridInfo, gridData |-> <<>>,
              headerSection |-> TRUE, dataLineCount |-> 0, thrown |-> FALSE],
             content)

\* (gridInfo.nx || 40) * (gridInfo.ny || 40) * (gridInfo.nz || 40)
MapExpectedPoints(gi) ==
    OrDefault(gi.nx, NativeDefaultDim) * OrDefault(gi.ny, NativeDefaultDim)
        * OrDefault(gi.nz, NativeDefaultDim)

\* truncate excess data / pad missing data with zeros
MapFixLength(gridData, expectedPoints) ==
    IF Len(gridData) = expectedPoints THEN gridData
    ELSE IF Len(gridData) > expectedPoints THEN Slice(gridData, expectedPoints)
    ELSE PadZeros(gridData, expectedPoints)

parseFragMapFile(content) ==
    LET st == MapScan(content)
    IN  IF st.thrown THEN Thrown
        ELSE Returned(st.gridInfo,
                      Float32Array(MapFixLength(st.gridData,
                                                MapExpectedPoints(st.gridInfo))))

----------------------------------------------------------------------------
(* parseDxFile: the OpenDX parser of fragMapLoader.js *)

DxDefaultDim == 40
DxDefaultSpacing == 80
DxDefaultOriginX == 481
DxDefaultOriginY == 0 - 526
DxDefaultOriginZ == 1516

\* index of the first token that is the word w, 0 when there is none
FindWord(line, w) ==
    IF \E i \in 1..Len(line) : line[i] = Word(w)
    THEN CHOOSE i \in 1..Len(line) :
            line[i] = Word(w) /\ \A j \in 1..(i - 1) : line[j] # Word(w)
    ELSE 0

\* a numeral the character class [-\d.]+ matches in full
IsPlainNumeral(tok) == IsNum(tok) /\ IsFinite(tok.n)

\* a numeral \d+ matches in full / at its start
IsDigits(tok) == IsPlainNumeral(tok) /\ tok.n >= 0 /\ tok.n % Unit = 0
StartsWithDigits(tok) == IsPlainNumeral(tok) /\ tok.n >= 0

\* trimmed.includes('object 1 class grid')
IncludesGridObject(line) ==
    \E i \in 1..Len(line) :
        /\ i + 3 <= Len(line)
        /\ line[i] = Word("object")
        /\ line[i + 1] = Num(Unit)
        /\ line[i + 2] = Word("class")
        /\ line[i + 3] \in {Word("grid"), Word("gridpositions"), Word("gridconnections")}

\* trimmed.includes('class array') && trimmed.includes('data follows')
IncludesDataFollows(line) ==
    /\ \E i \in 1..Len(line) :
          i + 1 <= Len(line) /\ line[i] = Word("class") /\ line[i + 1] = Word("array")
    /\ \E i \in 1..Len(line) :
          i + 1 <= Len(line) /\ line[i] = Word("data") /\ line[i + 1] = Word("follows")

\* /counts\s+(\d+)\s+(\d+)\s+(\d+)/ : <<>> when it does not match
MatchCounts(line) ==
    LET i == FindWord(line, "counts")
    IN  IF /\ i > 0
           /\ i + 3 <= Len(line)
           /\ IsDigits(line[i + 1])
           /\ IsDigits(line[i + 2])
           /\ StartsWithDigits(line[i + 3])
        THEN <<line[i + 1], line[i + 2], line[i + 3]>>
        ELSE <<>>

\* /kw\s+([-\d.]+)\s+([-\d.]+)\s+([-\d.]+)/ for kw = origin, delta
MatchTriple(line, kw) ==
    LET i == FindWord(line, kw)
    IN  IF /\ i > 0
           /\ i + 3 <= Len(line)
           /\ \A k \in 1..3 : IsPlainNumeral(line[i + k])
        THEN <<line[i + 1], line[i + 2], line[i + 3]>>
        ELSE <<>>

\* the body of the loop over lines
DxLine(st, line) ==
    LET gi == st.gridInfo
    IN  IF IsSkipped(line) THEN st
        ELSE IF IncludesGridObject(line)
        THEN LET m == MatchCounts(line)
             IN  IF m # <<>>
                 THEN [st EXCEPT !.gridInfo =
                          [gi EXCEPT !.nx = Some(parseInt(m[1])),
                                     !.ny = Some(parseInt(m[2])),
                                     !.nz = Some(parseInt(m[3]))]]
                 ELSE st
        ELSE IF FindWord(line, "origin") > 0
        THEN LET m == MatchTriple(line, "origin")
             IN  IF m # <<>>
                 THEN [st EXCEPT !.gridInfo =
                          [gi EXCEPT !.origin_x = Some(parseFloat(m[1])),
                                     !.origin_y = Some(parseFloat(m[2])),
                                     !.origin_z = Some(parseFloat(m[3]))]]
                 ELSE st
        ELSE IF FindWord(line, "delta") > 0
        THEN LET m == MatchTriple(line, "delta")
             IN  IF m # <<>>
                 THEN [st EXCEPT !.gridInfo.grid_spacing = Some(parseFloat(m[1]))]
                 ELSE st
        ELSE IF IncludesDataFollows(line)
        THEN [st EXCEPT !.readingData = TRUE]
        ELSE IF st.readingData
        THEN [st EXCEPT !.gridData = @ \o LineNumbers(line)]
        ELSE st

RECURSIVE DxLines(_, _)
DxLines(st, lines) ==
    IF lines = <<>> THEN st
    ELSE DxLines(DxLine(st, Head(lines)), Tail(lines))

\* the loop of parseDxFile: header object and collected values
DxScan(content) ==
    DxLines([gridInfo |-> NoGridInfo, gridData |-> <<>>, readingData |-> FALSE],
            content)

\* "Ensure we have required grid info": gridInfo.x = gridInfo.x || default
DxDefaults(gi) ==
    [gi EXCEPT !.nx = Some(OrDefault(gi.nx, DxDefaultDim)),
               !.ny = Some(OrDefault(gi.ny, DxDefaultDim)),
               !.nz = Some(OrDefault(gi.nz, DxDefaultDim)),
               !.grid_spacing = Some(OrDefault(gi.grid_spacing, DxDefaultSpacing)),
               !.origin_x = Some(OrDefault(gi.origin_x, DxDefaultOriginX)),
               !.origin_y = Some(OrDefault(gi.origin_y, DxDefaultOriginY)),
               !.origin_z = Some(OrDefault(gi.origin_z, DxDefaultOriginZ))]

\* "Pad or truncate as needed"
DxFixLength(gridData, expectedPoints) ==
    IF Len(gridData) = expectedPoints THEN gridData
    ELSE IF Len(gridData) < expectedPoints THEN PadZeros(gridData, expectedPoints)
    ELSE Slice(gridData, expectedPoints)

parseDxFile(content) ==
    LET st == DxScan(content)
        gi == DxDefaults(st.gridInfo)
        expectedPoints == gi.nx[1] * gi.ny[1] * gi.nz[1]
    IN  Returned(gi, Float32Array(DxFixLength(st.gridData, expectedPoints)))

----------------------------------------------------------------------------
(* molstarVolumeConverter.js: parseSilcsMapFile header and calculateGridOrigin *)

NoHeader ==
    [nx |-> Undefined, ny |-> Undefined, nz |-> Undefined,
     centerX |-> Undefined, centerY |-> Undefined, centerZ |-> Undefined,
     spacing |-> Undefined]

\* one line of the header loop; the numeric test comes before the key match
SilcsHeaderLine(header, line) ==
    LET key == HeaderKey(line)
        value == HeaderValue(line)
    IN  IF ~HeaderMatch(line) THEN header
        ELSE IF key = "NELEMENTS" /\ ~IsNumericText(value) /\ Len(value) = 3
        THEN [header EXCEPT !.nx = Some(parseInt(value[1])),
                            !.ny = Some(parseInt(value[2])),
                            !.nz = Some(parseInt(value[3]))]
        ELSE IF key = "CENTER" /\ ~IsNumericText(value) /\ Len(value) = 3
        THEN [header EXCEPT !.centerX = Some(parseFloat(value[1])),
                            !.centerY = Some(parseFloat(value[2])),
                            !.centerZ = Some(parseFloat(value[3]))]
        ELSE IF key = "SPACING"   \* header[key.toLowerCase()] = value
        THEN [header EXCEPT !.spacing =
                 Some(IF IsNumericText(value) THEN value[1].n ELSE NaN)]
        ELSE header

RECURSIVE SilcsHeaderLines(_, _)
SilcsHeaderLines(header, lines) ==
    IF lines = <<>> THEN header
    ELSE IF IsSkipped(Head(lines)) THEN SilcsHeaderLines(header, Tail(lines))
    ELSE IF LeadingNumeric(Head(lines)) THEN header      \* dataStart = i; break
    ELSE SilcsHeaderLines(SilcsHeaderLine(header, Head(lines)), Tail(lines))

parseSilcsMapFile(content) == SilcsHeaderLines(NoHeader, content)

\* an undefined operand makes the arithmetic NaN
NumOf(p) == IF IsDefined(p) THEN p[1] ELSE NaN

MolstarDefaultSpacing == 100

\* origin = center - ((n - 1) * spacing) / 2 on each axis
calculateGridOrigin(header) ==
    LET spacing == OrDefault(header.spacing, MolstarDefaultSpacing)
        Axis(c, n) == Sub(NumOf(c), Half(Times(Sub(NumOf(n), 1), spacing)))
    IN  <<Axis(header.centerX, header.nx),
          Axis(header.centerY, header.ny),
          Axis(header.centerZ, header.nz)>>

----------------------------------------------------------------------------
(* The DX conversion script: parseMapFile and convertToDx *)

\* gridInfo of the converter keeps the centre apart from the origin
NoConvInfo ==
    [nx |-> Undefined, ny |-> Undefined, nz |-> Undefined,
     center_x |-> Undefined, center_y |-> Undefined, center_z |-> Undefined,
     grid_spacing |-> Undefined]

ConvHeaderLine(st, line) ==
    LET key == HeaderKey(line)
        value == HeaderValue(line)
        gi == st.gridInfo
    IN  IF HeaderMatch(line)
        THEN IF key = "NELEMENTS"
             THEN IF IsNumericText(value)
                  THEN [st EXCEPT !.thrown = TRUE]
                  ELSE IF Len(value) = 3
                       THEN [st EXCEPT
                               !.gridInfo =
                                  [gi EXCEPT !.nx = Some(parseInt(value[1])),
                                             !.ny = Some(parseInt(value[2])),
                                             !.nz = Some(parseInt(value[3]))],
                               !.expectedDataCount =
                                  Some(parseInt(value[1]) * parseInt(value[2])
                                         * parseInt(value[3]))]
                       ELSE st
             ELSE IF key = "CENTER"
             THEN IF ~IsNumericText(value) /\ Len(value) = 3
                  THEN [st EXCEPT !.gridInfo =
                           [gi EXCEPT !.center_x = Some(parseFloat(value[1])),
                                      !.center_y = Some(parseFloat(value[2])),
                                      !.center_z = Some(parseFloat(value[3]))]]
                  ELSE st
             ELSE IF key = "SPACING"
             THEN [st EXCEPT !.gridInfo.grid_spacing =
                      Some(IF IsNumericText(value) THEN value[1].n ELSE NaN)]
             ELSE st
        ELSE IF LeadingNumeric(line)
             THEN [st EXCEPT !.headerSection = FALSE]
             ELSE st

\* "Each line contains exactly one value": parseFloat(trimmed) reads the first
\* numeral of a line that matches /^\s*[-]?[0-9]/
ConvDataLine(st, line) ==
    IF LeadingNumeric(line) /\ IsFinite(line[1].n)
    THEN [st EXCEPT !.gridData = Append(@, line[1].n),
                    !.stop = (Len(st.gridData) + 1 >= st.expectedDataCount[1])]
    ELSE st

ConvLine(st, line) ==
    IF IsSkipped(line) THEN st
    ELSE LET h == IF st.headerSection THEN ConvHeaderLine(st, line) ELSE st
         IN  IF ~h.headerSection /\ ~h.thrown /\ IsDefined(h.expectedDataCount)
             THEN ConvDataLine(h, line)
             ELSE h

RECURSIVE ConvLines(_, _)
ConvLines(st, lines) ==
    IF lines = <<>> \/ st.thrown \/ st.stop THEN st
    ELSE ConvLines(ConvLine(st, Head(lines)), Tail(lines))

parseMapFile(content) ==
    ConvLines([gridInfo |-> NoConvInfo, gridData |-> <<>>, headerSection |-> TRUE,
               expectedDataCount |-> Undefined, stop |-> FALSE, thrown |-> FALSE],
              content)

ConvDefaultNx == 84
ConvDefaultNy == 64
ConvDefaultNz == 58
ConvDefaultSpacing == 80
ValuesPerLine == 6

\* Corner = Center - (Dimensions * Spacing) / 2
ConvOrigin(gi) ==
    LET spacing == OrDefault(gi.grid_spacing, ConvDefaultSpacing)
        Axis(c, n) == Sub(OrDefault(c, 0), Half(Times(n, spacing)))
    IN  <<Axis(gi.center_x, OrDefault(gi.nx, ConvDefaultNx)),
          Axis(gi.center_y, OrDefault(gi.ny, ConvDefaultNy)),
          Axis(gi.center_z, OrDefault(gi.nz, ConvDefaultNz))>>

\* the data values, ValuesPerLine to a line
RECURSIVE DxDataLines(_)
DxDataLines(values) ==
    IF values = <<>> THEN <<>>
    ELSE LET k == IF Len(values) < ValuesPerLine THEN Len(values) ELSE ValuesPerLine
         IN  <<[i \in 1..k |-> Num(values[i])]>>
                \o DxDataLines(SubSeq(values, k + 1, Len(values)))

\* the DX text convertToDx writes; <<>> stands for "throws" (count mismatch)
convertToDx(mapData) ==
    LET gi == mapData.gridInfo
        gridData == mapData.gridData
        nx == OrDefault(gi.nx, ConvDefaultNx)
        ny == OrDefault(gi.ny, ConvDefaultNy)
        nz == OrDefault(gi.nz, ConvDefaultNz)
        spacing == OrDefault(gi.grid_spacing, ConvDefaultSpacing)
        origin == ConvOrigin(gi)
    IN  IF Len(gridData) # nx * ny * nz THEN <<>>
        ELSE <<
               <<Word("#")>>,
               <<Word("object"), Num(Unit), Word("class"), Word("gridpositions"),
                 Word("counts"), Num(nx * Unit), Num(ny * Unit), Num(nz * Unit)>>,
               <<Word("origin"), Num(origin[1]), Num(origin[2]), Num(origin[3])>>,
               <<Word("delta"), Num(spacing), Num(0), Num(0)>>,
               <<Word("delta"), Num(0), Num(spacing), Num(0)>>,
               <<Word("delta"), Num(0), Num(0), Num(spacing)>>,
               <<>>,
               <<Word("object"), Num(2 * Unit), Word("class"), Word("gridconnections"),
                 Word("counts"), Num(nx * Unit), Num(ny * Unit), Num(nz * Unit)>>,
               <<>>,
               <<Word("object"), Num(3 * Unit), Word("class"), Word("array"),
                 Word("type"), Word("float"), Word("rank"), Num(0), Word("items"),
                 Num(Len(gridData) * Unit), Word("data"), Word("follows")>>
             >>
             \o DxDataLines(gridData)
             \o <<
               <<>>,
               <<Word("object"), Word("fragmap"), Word("class"), Word("field")>>,
               <<Word("component"), Word("positions"), Word("value"), Num(Unit)>>,
               <<Word("component"), Word("connections"), Word("value"), Num(2 * Unit)>>,
               <<Word("component"), Word("qdata"), Word("value"), Num(3 * Unit)>>,
               <<Word("%")>>
             >>

----------------------------------------------------------------------------
(* Helpers of the samplers *)

\* a < b as JavaScript evaluates it; also `a - b < 0` of a sort comparator
LT(a, b) == ~IsNaN(a) /\ ~IsNaN(b) /\ a < b

Abs(a) == IF a < 0 THEN 0 - a ELSE a
Max3(a, b, c) ==
    IF a >= b /\ a >= c THEN a ELSE IF b >= c THEN b ELSE c

\* Math.ceil(a / b) for plain integers a >= 0, b > 0
Ceil(a, b) == (a + b - 1) \div b

\* Array.prototype.sort under a comparator that orders its elements
\* consistently; Before(a, b) is `comparator(a, b) < 0`.  The sort is stable.
SortBy(s, Before(_, _)) ==
    LET rank(i) ==
            Cardinality({j \in DOMAIN s :
                            Before(s[j], s[i]) \/ (~Before(s[i], s[j]) /\ j < i)})
    IN  IF s = <<>> THEN <<>>
        ELSE [k \in 1..Len(s) |-> s[CHOOSE i \in DOMAIN s : rank(i) = k - 1]]

\* every ordering of the elements of s
Orderings(s) ==
    {[k \in 1..Len(s) |-> s[p[k]]] :
        p \in {f \in [1..Len(s) -> 1..Len(s)] :
                 \A a, b \in 1..Len(s) : a # b => f[a] # f[b]}}

\* `d > limit` for a distance d given by its square (d = Math.sqrt(dSq))
Farther(dSq, limit) == limit < 0 \/ dSq > limit * limit

----------------------------------------------------------------------------
(* 3dmolFragMapLoader.js: generateSpheresFromGrid *)

DefaultIsoValue == Unit
DefaultMaxSpheres == 1500
DefaultIsoValueRange == 10
DefaultMaxDistance == 100 * Unit
DefaultFilterRadius == 15 * Unit
DefaultGridSpacing == 80

\* config: the fields of a fragMapConfig the sampler reads; "" and <<>> are
\* undefined
NoConfig ==
    [id |-> "", isoValue |-> Undefined, thresholdMode |-> "",
     isoValueRange |-> Undefined, maxSpheres |-> Undefined,
     maxDistance |-> Undefined, selectedProteinPart |-> Undefined,
     filterCenter |-> Undefined, filterRadius |-> Undefined]

\* config.thresholdMode || (isoValue < 0 ? 'lower' : 'higher')
ThresholdMode(cfg) ==
    LET isoValue == IF IsDefined(cfg.isoValue) THEN cfg.isoValue[1] ELSE DefaultIsoValue
    IN  IF cfg.thresholdMode # "" THEN cfg.thresholdMode
        ELSE IF LT(isoValue, 0) THEN "lower" ELSE "higher"

\* isLowerMode ? isoValue - isoValueRange : isoValue + isoValueRange
Threshold(cfg) ==
    LET isoValue == IF IsDefined(cfg.isoValue) THEN cfg.isoValue[1] ELSE DefaultIsoValue
        isoValueRange == IF IsDefined(cfg.isoValueRange) THEN cfg.isoValueRange[1]
                         ELSE DefaultIsoValueRange
    IN  IF ThresholdMode(cfg) = "lower" THEN Sub(isoValue, isoValueRange)
        ELSE Add(isoValue, isoValueRange)

\* "Convert 1D index to 3D coordinates" for the 0-based index i, then
\* ix * spacing + (gridInfo.origin_x || 0) on each axis
IndexToWorld(gridInfo, spacing, i) ==
    LET nx == gridInfo.nx[1]
        ny == gridInfo.ny[1]
        ix == i % nx
        iy == (i \div nx) % ny
        iz == i \div (nx * ny)
    IN  <<Add(Times(ix, spacing), OrDefault(gridInfo.origin_x, 0)),
          Add(Times(iy, spacing), OrDefault(gridInfo.origin_y, 0)),
          Add(Times(iz, spacing), OrDefault(gridInfo.origin_z, 0))>>

\* calculateDistanceToBounds, squared
DistanceToBoundsSq(p, bounds) ==
    LET dx == Max3(bounds.minX - p[1], 0, p[1] - bounds.maxX)
        dy == Max3(bounds.minY - p[2], 0, p[2] - bounds.maxY)
        dz == Max3(bounds.minZ - p[3], 0, p[3] - bounds.maxZ)
    IN  dx * dx + dy * dy + dz * dz

\* the distance to filterCenter, squared
DistanceToCenterSq(p, c) ==
    (p[1] - c[1]) * (p[1] - c[1]) + (p[2] - c[2]) * (p[2] - c[2])
        + (p[3] - c[3]) * (p[3] - c[3])

\* the `continue` of the region test: the point is dropped
OutsideRegion(p, cfg) ==
    LET maxDistance == IF IsDefined(cfg.maxDistance) THEN cfg.maxDistance[1]
                       ELSE DefaultMaxDistance
        filterRadius == IF IsDefined(cfg.filterRadius) THEN cfg.filterRadius[1]
                        ELSE DefaultFilterRadius
    IN  IF IsDefined(cfg.selectedProteinPart)
        THEN Farther(DistanceToBoundsSq(p, cfg.selectedProteinPart[1].bounds), maxDistance)
        ELSE IF IsDefined(cfg.filterCenter)
        THEN Farther(DistanceToCenterSq(p, cfg.filterCenter[1]), filterRadius)
        ELSE FALSE

\* The loop over gridData: the spheres pushed, in grid order.  The spheres
\* carry x, y, z and intensity; radius, color and alpha are constants of the
\* config.
PushedSpheres(data, cfg) ==
    LET gridInfo == data.gridInfo
        gridData == data.gridData
        isLowerMode == ThresholdMode(cfg) = "lower"
        threshold == Threshold(cfg)
        spacing == OrDefault(gridInfo.grid_spacing, DefaultGridSpacing)
        includeSphere(value) ==
            IF isLowerMode THEN LE(value, threshold) ELSE GE(value, threshold)
        Kept(i) ==
            /\ includeSphere(gridData[i])
            /\ ~OutsideRegion(IndexToWorld(gridInfo, spacing, i - 1), cfg)
        kept == SelectSeq([i \in 1..Len(gridData) |-> i], Kept)
        Sphere(i) ==
            LET p == IndexToWorld(gridInfo, spacing, i - 1)
            IN  [x |-> p[1], y |-> p[2], z |-> p[3], intensity |-> gridData[i]]
    IN  [k \in 1..Len(kept) |-> Sphere(kept[k])]

\* spheres.sort((a, b) => a.intensity - b.intensity) in lower mode, the
\* reverse comparator otherwise; a difference that is NaN (two equal
\* infinities) counts as 0
SortSpheres(pushed, isLowerMode) ==
    IF isLowerMode
    THEN SortBy(pushed, LAMBDA a, b : LT(a.intensity, b.intensity))
    ELSE SortBy(pushed, LAMBDA a, b : LT(b.intensity, a.intensity))

\* a comparator that orders nothing consistently, as `() => Math.random() -
\* 0.5` does: the sort can leave any arrangement
ShuffleResults(pushed, isLowerMode) == Orderings(pushed)

\* The arrays the sort can leave.  The comparator orders the pushed spheres
\* consistently (a value that is NaN passes no threshold) and
\* Array.prototype.sort is stable, so there is exactly one.
SortResults(pushed, isLowerMode) == {SortSpheres(pushed, isLowerMode)}

\* spheres.length > maxSpheres ? spheres.slice(0, maxSpheres) : spheres
LimitSpheres(sorted, cfg) ==
    LET maxSpheres == IF IsDefined(cfg.maxSpheres) THEN cfg.maxSpheres[1]
                      ELSE DefaultMaxSpheres
    IN  IF Len(sorted) > maxSpheres THEN Slice(sorted, maxSpheres) ELSE sorted

generateSpheresFromGrid(data, cfg) ==
    LimitSpheres(SortSpheres(PushedSpheres(data, cfg), ThresholdMode(cfg) = "lower"),
                 cfg)

\* the arrays a call of generateSpheresFromGrid can return
generateSpheresFromGridResults(data, cfg) ==
    {LimitSpheres(sorted, cfg) :
        sorted \in SortResults(PushedSpheres(data, cfg), ThresholdMode(cfg) = "lower")}

----------------------------------------------------------------------------
(* fragMapParser.js: generateSpheresFromGrid *)

ParserGridSpacing == 80
ParserMaxSpheres == 5000

\* the sphere pushed for grid index `index` (0-based); dimensions.origin is
\* set by no parser, so origin = [0, 0, 0]
ParserSphere(index, gridData, dimensions) ==
    LET nx == OrDefault(dimensions.nx, NativeDefaultDim)
        ny == OrDefault(dimensions.ny, NativeDefaultDim)
        x == index % nx
        y == (index \div nx) % ny
        z == index \div (nx * ny)
    IN  [x |-> Add(0, Times(x, ParserGridSpacing)),
         y |-> Add(0, Times(y, ParserGridSpacing)),
         z |-> Add(0, Times(z, ParserGridSpacing)),
         energy |-> gridData[index + 1],
         gridIndex |-> index]

\* the grid indices (0-based) the nested loops find with energy <= isovalue,
\* in the order they visit them: index = z*nx*ny + y*nx + x ascending; an
\* index past the end of gridData reads undefined and fails the test
ParserEligible(gridData, dimensions, isovalue) ==
    LET nx == OrDefault(dimensions.nx, NativeDefaultDim)
        ny == OrDefault(dimensions.ny, NativeDefaultDim)
        nz == OrDefault(dimensions.nz, NativeDefaultDim)
        total == IF nx * ny * nz < Len(gridData) THEN nx * ny * nz
                 ELSE Len(gridData)
        passes(index) == LE(gridData[index + 1], isovalue)
    IN  SelectSeq([k \in 1..total |-> k - 1], passes)

\* every eligible point pushed: no skip factor and no limit
unsampledSpheresFromGrid(gridData, dimensions, isovalue) ==
    LET visited == ParserEligible(gridData, dimensions, isovalue)
    IN  [k \in 1..Len(visited) |-> ParserSphere(visited[k], gridData, dimensions)]

\* skippedCount counts the eligible points met so far, so the k-th eligible
\* point (from 0) is pushed iff k % skipFactor = 0, until sphereCount reaches
\* maxSpheres
parserGenerateSpheresFromGrid(gridData, dimensions, isovalue) ==
    LET eligiblePoints ==
            Cardinality({i \in 1..Len(gridData) : LE(gridData[i], isovalue)})
        skipFactor == Ceil(eligiblePoints, ParserMaxSpheres)
        visited == ParserEligible(gridData, dimensions, isovalue)
        pushed == IF Len(visited) = 0 THEN 0 ELSE Ceil(Len(visited), skipFactor)
        sphereCount == IF pushed < ParserMaxSpheres THEN pushed
                       ELSE ParserMaxSpheres
    IN  [k \in 1..sphereCount |->
            ParserSphere(visited[(k - 1) * skipFactor + 1], gridData, dimensions)]

----------------------------------------------------------------------------
(* binaryFragMapLoader.js: generateSpheresFromGrid *)

BindingSiteX == 2081
BindingSiteY == 1074
BindingSiteZ == 3116
BinaryDefaultSpacing == 80
BinaryMaxDistance == 12 * Unit
BinaryMaxSpheres == 500

\* Math.min / Math.max folded over the grid, from Infinity / -Infinity
MinValue(gridData) ==
    IF gridData = <<>> THEN PosInf
    ELSE IF \E i \in DOMAIN gridData : IsNaN(gridData[i]) THEN NaN
    ELSE CHOOSE m \in {gridData[i] : i \in DOMAIN gridData} :
            \A i \in DOMAIN gridData : m <= gridData[i]
MaxValue(gridData) ==
    IF gridData = <<>> THEN NegInf
    ELSE IF \E i \in DOMAIN gridData : IsNaN(gridData[i]) THEN NaN
    ELSE CHOOSE m \in {gridData[i] : i \in DOMAIN gridData} :
            \A i \in DOMAIN gridData : m >= gridData[i]

\* intensity is a quotient of two non-negative numbers, kept as num/den;
\* 0/0 is NaN (the grids sampled here hold finite values)
IntensityIsNaN(q) == q.den = 0
IntensityLess(p, q) ==
    ~IntensityIsNaN(p) /\ ~IntensityIsNaN(q) /\ p.num * q.den < q.num * p.den

\* the points the loops visit, x outermost and z innermost, and the spheres
\* pushed for them, in loop order
BinaryPushed(gridData, gridInfo, isovalue) ==
    LET nx == OrDefault(gridInfo.nx, NativeDefaultDim)
        ny == OrDefault(gridInfo.ny, NativeDefaultDim)
        nz == OrDefault(gridInfo.nz, NativeDefaultDim)
        spacing == OrDefault(gridInfo.grid_spacing, BinaryDefaultSpacing)
        minValue == MinValue(gridData)
        maxValue == MaxValue(gridData)
        floored == (spacing * 2) \div Unit
        sampleRate == IF floored > 1 THEN floored ELSE 1
        cx == Ceil(nx, sampleRate)
        cy == Ceil(ny, sampleRate)
        cz == Ceil(nz, sampleRate)
        X(k) == ((k \div (cz * cy)) % cx) * sampleRate
        Y(k) == ((k \div cz) % cy) * sampleRate
        Z(k) == (k % cz) * sampleRate
        Idx(k) == X(k) + Y(k) * nx + Z(k) * nx * ny
        \* (x - nx/2) * spacing
        Off(c, n) == Half(Times(2 * c - n, spacing))
        IsFavorable(value) == LT(value, 0)
        Passes(k) ==
            /\ Idx(k) + 1 <= Len(gridData)
            /\ LET value == gridData[Idx(k) + 1]
               IN  \/ IsFavorable(value) /\ LE(value, isovalue)
                   \/ ~IsFavorable(value) /\ GE(value, isovalue)
            /\ ~ (Off(X(k), nx) * Off(X(k), nx) + Off(Y(k), ny) * Off(Y(k), ny)
                    + Off(Z(k), nz) * Off(Z(k), nz)
                  > BinaryMaxDistance * BinaryMaxDistance)
        kept == SelectSeq([k \in 1..(cx * cy * cz) |-> k - 1], Passes)
        Sphere(k) ==
            LET value == gridData[Idx(k) + 1]
            IN  [x |-> BindingSiteX + Off(X(k), nx),
                 y |-> BindingSiteY + Off(Y(k), ny),
                 z |-> BindingSiteZ + Off(Z(k), nz),
                 value |-> value,
                 intensity |->
                    IF IsFavorable(value)
                    THEN [num |-> Abs(value - minValue), den |-> Abs(minValue - isovalue)]
                    ELSE [num |-> value - isovalue, den |-> maxValue - isovalue],
                 isFavorable |-> IsFavorable(value)]
    IN  [j \in 1..Len(kept) |-> Sphere(kept[j])]

\* spheres.sort((a, b) => b.intensity - a.intensity).slice(0, 500): the
\* outcomes of the sort.  With a NaN intensity the comparator is not
\* consistent and the order is implementation-defined.
binaryGenerateSpheresFromGrid(gridData, gridInfo, isovalue) ==
    LET pushed == BinaryPushed(gridData, gridInfo, isovalue)
        sorted ==
            IF \E j \in DOMAIN pushed : IntensityIsNaN(pushed[j].intensity)
            THEN Orderings(pushed)
            ELSE {SortBy(pushed, LAMBDA a, b : IntensityLess(b.intensity, a.intensity))}
    IN  {Slice(s, BinaryMaxSpheres) : s \in sorted}

----------------------------------------------------------------------------
(* The precomputed spheres and getFragMapSpheres *)

\* generateSpheresFromGrid of the build script: one sphere per grid
\* point with energy <= isovalue, in index order
buildGenerateSpheresFromGrid(gridData, gridInfo, isovalue) ==
    LET kept == SelectSeq([i \in 1..Len(gridData) |-> i],
                          LAMBDA i : LE(gridData[i], isovalue))
        Sphere(i) ==
            LET nx == NumOf(gridInfo.nx)
                ny == NumOf(gridInfo.ny)
                z == (i - 1) \div (nx * ny)
                y == ((i - 1) % (nx * ny)) \div nx
                x == (i - 1) % nx
            IN  [x |-> Add(NumOf(gridInfo.origin_x), Times(x, NumOf(gridInfo.grid_spacing))),
                 y |-> Add(NumOf(gridInfo.origin_y), Times(y, NumOf(gridInfo.grid_spacing))),
                 z |-> Add(NumOf(gridInfo.origin_z), Times(z, NumOf(gridInfo.grid_spacing))),
                 energy |-> gridData[i],
                 gridIndex |-> i - 1]
    IN  [k \in 1..Len(kept) |-> Sphere(kept[k])]

\* the largest isovalue the build script precomputes spheres for
BuildIsovalue == Unit \div 2

\* SILCS_TO_APP_MAPPING, in key order
SILCS_TO_APP_MAPPING ==
    << <<"apolar", "hydrophobic">>, <<"hbdon", "hbond-donor">>,
       <<"hbacc", "hbond-acceptor">>, <<"acec", "positive">>,
       <<"mamn", "negative">>, <<"meoo", "aromatic">>,
       <<"tipo", "aromatic">>, <<"excl", "exclusion">> >>

\* Object.keys(...).find(key => SILCS_TO_APP_MAPPING[key] === appFragMapType)
SilcsTypeOf(appFragMapType) ==
    LET hits == SelectSeq(SILCS_TO_APP_MAPPING, LAMBDA e : e[2] = appFragMapType)
    IN  IF hits = <<>> THEN "" ELSE hits[1][1]

SpheresDefaultPercentile == 85
SpheresDefaultMaxSpheres == 8000
SpheresDefaultRange == 30

NoOptions ==
    [enableAdaptiveThreshold |-> Undefined, adaptivePercentile |-> Undefined,
     maxSpheres |-> Undefined, enableRangeFiltering |-> Undefined,
     isoValueRange |-> Undefined]

\* fragMaps maps a SILCS type to its precomputed sphere list
getFragMapSpheres(appFragMapType, isoValue, options, fragMaps) ==
    LET enableAdaptiveThreshold ==
            IF IsDefined(options.enableAdaptiveThreshold)
            THEN options.enableAdaptiveThreshold[1] ELSE TRUE
        adaptivePercentile ==
            IF IsDefined(options.adaptivePercentile)
            THEN options.adaptivePercentile[1] ELSE SpheresDefaultPercentile
        maxSpheres ==
            IF IsDefined(options.maxSpheres) THEN options.maxSpheres[1]
            ELSE SpheresDefaultMaxSpheres
        enableRangeFiltering ==
            IF IsDefined(options.enableRangeFiltering)
            THEN options.enableRangeFiltering[1] ELSE TRUE
        isoValueRange ==
            IF IsDefined(options.isoValueRange) THEN options.isoValueRange[1]
            ELSE SpheresDefaultRange
        silcsType == SilcsTypeOf(appFragMapType)
        all == fragMaps[silcsType]
        minEnergy == Sub(isoValue, isoValueRange)
        maxEnergy == Add(isoValue, isoValueRange)
        energies == SortBy(all, LAMBDA a, b : LT(a.energy, b.energy))
        percentileIndex == (Len(energies) * adaptivePercentile) \div 100
        adaptiveThreshold ==
            energies[(IF percentileIndex < Len(energies) - 1 THEN percentileIndex
                      ELSE Len(energies) - 1) + 1].energy
        effectiveThreshold ==
            IF LT(isoValue, adaptiveThreshold) THEN adaptiveThreshold ELSE isoValue
        filteredSpheres ==
            IF enableRangeFiltering
            THEN SelectSeq(all, LAMBDA s : GE(s.energy, minEnergy) /\ LE(s.energy, maxEnergy))
            ELSE IF enableAdaptiveThreshold /\ Len(all) > 0
            THEN SelectSeq(all, LAMBDA s : LE(s.energy, effectiveThreshold))
            ELSE SelectSeq(all, LAMBDA s : LE(s.energy, isoValue))
    IN  IF silcsType = "" \/ silcsType \notin DOMAIN fragMaps THEN <<>>
        ELSE IF Truthy(maxSpheres) /\ Len(filteredSpheres) > maxSpheres
        THEN Slice(SortBy(filteredSpheres, LAMBDA a, b : LT(a.energy, b.energy)),
                   maxSpheres)
        ELSE filteredSpheres

----------------------------------------------------------------------------
(* fragMapLoader.js: the load pipeline *)

\* the ids of config/fragMapTypes.js
FragMapTypeIds ==
    {"hydrophobic", "hbond-donor", "hbond-acceptor", "positive", "negative",
     "aromatic"}

\* validateFragMapData of fragMapLoader.js, on a loaded object
validateFragMapData(data) ==
    LET gridInfo == data.gridInfo
        gridData == data.gridData
    IN  /\ data.status = "returned"
        /\ \A p \in {gridInfo.nx, gridInfo.ny, gridInfo.nz} :
              IsDefined(p) /\ Truthy(p[1])
        /\ Len(gridData) = gridInfo.nx[1] * gridInfo.ny[1] * gridInfo.nz[1]

\* loadBinaryFragMap alone: the data returned without the validation
unvalidatedBinary(file) ==
    IF file.status = "returned" THEN file ELSE Thrown

\* loadBinaryFragMap followed by the validation of loadFragMapData: the
\* data returned, or Thrown for the catch branch (fall back to DX)
TryBinary(file) ==
    IF file.status = "returned" /\ validateFragMapData(file) THEN file ELSE Thrown

\* tryLoadFile: null (here Thrown) when the file is not served
tryLoadFile(served, content) ==
    IF served THEN parseDxFile(content) ELSE Thrown

----------------------------------------------------------------------------
(* Input texts *)

MaxDataLines == 3
MaxPerLine == 2

\* grid values of the input files: -1.0 and 1.0
Values == {0 - Unit, Unit}

\* sequences over S of length lo..hi
SeqsOf(S, lo, hi) == UNION {[1..n -> S] : n \in lo..hi}

\* a data line holds 1..MaxPerLine numerals
DataLines == {[i \in 1..Len(vs) |-> Num(vs[i])] : vs \in SeqsOf(Values, 1, MaxPerLine)}

\* a data section holds 0..MaxDataLines data lines
DataSections == SeqsOf(DataLines, 0, MaxDataLines)

Dims == {<<1, 1, 1>>, <<2, 2, 1>>}
Centers == {<<0, 0, 0>>, <<2 * Unit, 2 * Unit, 2 * Unit>>}
Spacings == {Unit, Unit \div 2}

Opt(S) == {Undefined} \cup {Some(x) : x \in S}

NelementsLine(d) ==
    <<Word("NELEMENTS"), Num(d[1] * Unit), Num(d[2] * Unit), Num(d[3] * Unit)>>
CenterLine(c) == <<Word("CENTER"), Num(c[1]), Num(c[2]), Num(c[3])>>
SpacingLine(sp) == <<Word("SPACING"), Num(sp)>>

\* a .map text: comment, optional header keys, data section
MapText(d, sp, c, data) ==
    <<<<Word("#")>>>>
      \o (IF IsDefined(sp) THEN <<SpacingLine(sp[1])>> ELSE <<>>)
      \o (IF IsDefined(d) THEN <<NelementsLine(d[1])>> ELSE <<>>)
      \o (IF IsDefined(c) THEN <<CenterLine(c[1])>> ELSE <<>>)
      \o data

\* .map files with a NELEMENTS line, and a few without one
MapFiles ==
    {MapText(Some(d), sp, c, data) :
        d \in Dims, sp \in Opt(Spacings), c \in Opt(Centers), data \in DataSections}
    \cup
    {MapText(Undefined, Some(Unit), Some(<<0, 0, 0>>), data) :
        data \in SeqsOf(DataLines, 0, 1)}

DxOrigins == {<<0, 0, 0>>, <<Unit, 0, 0 - Unit>>}

GridLine(d) ==
    <<Word("object"), Num(Unit), Word("class"), Word("gridpositions")>>
      \o (IF IsDefined(d)
          THEN <<Word("counts"), Num(d[1][1] * Unit), Num(d[1][2] * Unit),
                 Num(d[1][3] * Unit)>>
          ELSE <<>>)
OriginLine(o) == <<Word("origin"), Num(o[1]), Num(o[2]), Num(o[3])>>
DeltaLines(sp) ==
    << <<Word("delta"), Num(sp), Num(0), Num(0)>>,
       <<Word("delta"), Num(0), Num(sp), Num(0)>>,
       <<Word("delta"), Num(0), Num(0), Num(sp)>> >>
ArrayLine(items) ==
    <<Word("object"), Num(3 * Unit), Word("class"), Word("array"), Word("type"),
      Word("float"), Word("rank"), Num(0), Word("items"), Num(items * Unit),
      Word("data"), Word("follows")>>
Trailer ==
    << <<Word("object"), Word("fragmap"), Word("class"), Word("field")>>,
       <<Word("component"), Word("positions"), Word("value"), Num(Unit)>>,
       <<Word("component"), Word("connections"), Word("value"), Num(2 * Unit)>>,
       <<Word("component"), Word("qdata"), Word("value"), Num(3 * Unit)>> >>

RECURSIVE CountNumbers(_)
CountNumbers(lines) ==
    IF lines = <<>> THEN 0
    ELSE Len(LineNumbers(Head(lines))) + CountNumbers(Tail(lines))

\* a .dx text; `items` declares the number of values of the data block
DxText(d, o, sp, data, trailer) ==
    <<<<Word("#")>>, GridLine(d)>>
      \o (IF IsDefined(o) THEN <<OriginLine(o[1])>> ELSE <<>>)
      \o (IF IsDefined(sp) THEN DeltaLines(sp[1]) ELSE <<>>)
      \o <<ArrayLine(CountNumbers(data))>>
      \o data
      \o (IF trailer THEN Trailer ELSE <<>>)

DxFiles ==
    {DxText(Some(d), o, sp, data, trailer) :
        d \in Dims, o \in Opt(DxOrigins), sp \in Opt(Spacings),
        data \in DataSections, trailer \in BOOLEAN}
    \cup
    {DxText(Undefined, Some(<<Unit, 0, 0 - Unit>>), Some(Unit), data, TRUE) :
        data \in SeqsOf(DataLines, 0, 1)}

----------------------------------------------------------------------------
(* The parsers applied to a file *)

NoDx == [status |-> "none", text |-> <<>>]
NoSampler == [name |-> "", options |-> NoOptions]
NoBinary == [available |-> FALSE, file |-> NoData]
NoCall == [name |-> "", spheres |-> <<>>, residues |-> <<>>, options |-> <<>>]
NoPrevious == [called |-> FALSE, config |-> NoConfig, spheres |-> <<>>]
NoFilter == [residues |-> <<>>, effectiveMaxDistance |-> 0,
             energyThreshold |-> 0, maxSpheres |-> 0]

\* the ids of the FragMaps the manager is followed for
FragMapIds == <<"hydrophobic", "hbond-donor">>
FragMapIdSet == {FragMapIds[i] : i \in DOMAIN FragMapIds}

\* FragMapManager after mounting: nothing active, no representation, no call
NoManager ==
    [activeFragMaps |-> {},
     closureActiveFragMaps |-> {},
     activeReps |-> [id \in FragMapIdSet |-> Undefined],
     processing |-> {},
     calls |-> {},
     started |-> 0,
     events |-> 0]

\* the viewer wrapper as created: no shape, shapeIds an empty Map
NoViewer ==
    [shapes |-> {}, shapeIds |-> {}, handles |-> 0, now |-> 0, issued |-> {}]

\* nothing created, measured or computed yet
InitRest ==
    /\ regionFilter = NoFilter
    /\ regionDistance = <<>>
    /\ statistics = <<>>
    /\ heap = <<>>
    /\ handedOut = <<>>
    /\ manager = NoManager
    /\ viewerWrapper = NoViewer

InitParse ==
    /\ pc = "text"
    /\ \E f \in {"map", "dx"} :
          /\ format = f
          /\ fileContent \in (IF f = "map" THEN MapFiles ELSE DxFiles)
    /\ fragMapData = NoData
    /\ volumeOrigin = <<>>
    /\ dxContent = NoDx
    /\ config = NoConfig
    /\ sampler = NoSampler
    /\ spheres = <<>>
    /\ binary = NoBinary
    /\ call = NoCall
    /\ previous = NoPrevious
    /\ InitRest

\* the application parses a .map text
ParseFragMapFile ==
    /\ pc = "text"
    /\ format = "map"
    /\ fragMapData' = parseFragMapFile(fileContent)
    /\ pc' = fragMapData'.status
    /\ UNCHANGED <<format, fileContent, volumeOrigin, dxContent, config, sampler,
                   spheres, binary>>
    /\ UNCHANGED <<call, previous, restVars>>

\* the application parses a .dx text
ParseDxFile ==
    /\ pc = "text"
    /\ format = "dx"
    /\ fragMapData' = parseDxFile(fileContent)
    /\ pc' = fragMapData'.status
    /\ UNCHANGED <<format, fileContent, volumeOrigin, dxContent, config, sampler,
                   spheres, binary>>
    /\ UNCHANGED <<call, previous, restVars>>

\* the Mol* volume converter derives the origin of a .map text
CalculateGridOrigin ==
    /\ format = "map"
    /\ volumeOrigin = <<>>
    /\ volumeOrigin' = calculateGridOrigin(parseSilcsMapFile(fileContent))
    /\ UNCHANGED <<pc, format, fileContent, fragMapData, dxContent, config, sampler,
                   spheres, binary>>
    /\ UNCHANGED <<call, previous, restVars>>

\* the build script converts a .map text to DX
ConvertToDx ==
    /\ format = "map"
    /\ dxContent.status = "none"
    /\ LET mapData == parseMapFile(fileContent)
           text == IF mapData.thrown THEN <<>> ELSE convertToDx(mapData)
       IN  dxContent' = IF text = <<>> THEN [status |-> "thrown", text |-> <<>>]
                        ELSE [status |-> "written", text |-> text]
    /\ UNCHANGED <<pc, format, fileContent, fragMapData, volumeOrigin, config,
                   sampler, spheres, binary>>
    /\ UNCHANGED <<call, previous, restVars>>

\* the converted file is served from /assets/fragmaps-dx and loaded as DX
LoadConverted ==
    /\ format = "map"
    /\ dxContent.status = "written"
    /\ format' = "dx"
    /\ fileContent' = dxContent.text
    /\ pc' = "text"
    /\ fragMapData' = NoData
    /\ UNCHANGED <<volumeOrigin, dxContent, config, sampler, spheres, binary>>
    /\ UNCHANGED <<call, previous, restVars>>

NextParse ==
    \/ ParseFragMapFile
    \/ ParseDxFile
    \/ CalculateGridOrigin
    \/ ConvertToDx
    \/ LoadConverted

SpecParse == InitParse /\ [][NextParse]_vars

----------------------------------------------------------------------------
(* The samplers applied to a grid *)

\* grid values -1.0, -0.5 and 1.0
SampleValues == {0 - Unit, 0 - Unit \div 2, Unit}
SampleDims == {<<2, 2, 1>>, <<1, 1, 2>>}
SampleOrigins == {<<0, 0, 0>>, <<0 - Unit, 0 - Unit, 0 - Unit \div 2>>}
SampleSpacings == {Unit, Unit \div 2}

\* a parsed grid: the gridInfo both parsers return, with its values
GridOf(d, o, sp, values) ==
    Returned([NoGridInfo EXCEPT !.nx = Some(d[1]), !.ny = Some(d[2]),
                                !.nz = Some(d[3]),
                                !.origin_x = Some(o[1]), !.origin_y = Some(o[2]),
                                !.origin_z = Some(o[3]),
                                !.grid_spacing = Some(sp)],
             Float32Array(values))

SampleGrids ==
    UNION {{GridOf(d, o, sp, values) :
                o \in SampleOrigins, sp \in SampleSpacings,
                values \in [1..(d[1] * d[2] * d[3]) -> SampleValues]} :
           d \in SampleDims}

\* the region a config restricts the spheres to: none, the bounds of a
\* protein part, or a centre (the ligand)
Box(lo, hi) ==
    [bounds |-> [minX |-> lo, maxX |-> hi, minY |-> lo, maxY |-> hi,
                 minZ |-> lo, maxZ |-> hi]]
SampleRegions ==
    {[selectedProteinPart |-> Undefined, filterCenter |-> Undefined],
     [selectedProteinPart |-> Some(Box(150 * Unit, 160 * Unit)),
      filterCenter |-> Undefined],
     [selectedProteinPart |-> Undefined,
      filterCenter |-> Some(<<0, 0, 15 * Unit>>)]}

SampleIsoValues == {0 - Unit \div 2, Unit \div 2}

SampleConfigs ==
    {[NoConfig EXCEPT !.id = "hydrophobic",
                      !.isoValue = Some(t),
                      !.thresholdMode = m,
                      !.isoValueRange = r,
                      !.maxSpheres = ms,
                      !.selectedProteinPart = reg.selectedProteinPart,
                      !.filterCenter = reg.filterCenter] :
        t \in SampleIsoValues, m \in {"", "lower", "higher"},
        r \in {Undefined, Some(0)}, ms \in {Undefined, Some(2)},
        reg \in SampleRegions}

\* the options getFragMapSpheres is called with
SampleOptions ==
    {NoOptions,
     [NoOptions EXCEPT !.enableRangeFiltering = Some(TRUE),
                       !.isoValueRange = Some(DefaultIsoValueRange),
                       !.enableAdaptiveThreshold = Some(FALSE)],
     [NoOptions EXCEPT !.enableRangeFiltering = Some(FALSE)],
     [NoOptions EXCEPT !.enableRangeFiltering = Some(FALSE),
                       !.enableAdaptiveThreshold = Some(FALSE)],
     [NoOptions EXCEPT !.enableRangeFiltering = Some(FALSE),
                       !.enableAdaptiveThreshold = Some(FALSE),
                       !.maxSpheres = Some(1)]}

InitSample ==
    /\ pc = "grid"
    /\ format = "none"
    /\ fileContent = <<>>
    /\ fragMapData \in SampleGrids
    /\ volumeOrigin = <<>>
    /\ dxContent = NoDx
    /\ config \in SampleConfigs
    /\ sampler = NoSampler
    /\ spheres = <<>>
    /\ binary = NoBinary
    /\ call = NoCall
    /\ previous = NoPrevious
    /\ InitRest

\* 3dmolFragMapLoader.js samples the grid under the config
GenerateSpheresFromGrid ==
    /\ pc = "grid"
    /\ spheres' = generateSpheresFromGrid(fragMapData, config)
    /\ sampler' = [NoSampler EXCEPT !.name = "3dmol"]
    /\ pc' = "sampled"
    /\ UNCHANGED <<format, fileContent, fragMapData, volumeOrigin, dxContent,
                   config, binary>>
    /\ UNCHANGED <<call, previous, restVars>>

\* fragMapParser.js samples the grid at the isovalue
ParserGenerateSpheresFromGrid ==
    /\ pc = "grid"
    /\ spheres' = parserGenerateSpheresFromGrid(fragMapData.gridData,
                                                fragMapData.gridInfo,
                                                config.isoValue[1])
    /\ sampler' = [NoSampler EXCEPT !.name = "parser"]
    /\ pc' = "sampled"
    /\ UNCHANGED <<format, fileContent, fragMapData, volumeOrigin, dxContent,
                   config, binary>>
    /\ UNCHANGED <<call, previous, restVars>>

\* createSphereRepresentation of binaryFragMapLoader.js samples the grid
BinaryGenerateSpheresFromGrid ==
    /\ pc = "grid"
    /\ spheres' \in binaryGenerateSpheresFromGrid(fragMapData.gridData,
                                                  fragMapData.gridInfo,
                                                  config.isoValue[1])
    /\ sampler' = [NoSampler EXCEPT !.name = "binary"]
    /\ pc' = "sampled"
    /\ UNCHANGED <<format, fileContent, fragMapData, volumeOrigin, dxContent,
                   config, binary>>
    /\ UNCHANGED <<call, previous, restVars>>

\* getFragMapSpheres filters the spheres precomputed for the grid
GetFragMapSpheres ==
    /\ pc = "grid"
    /\ \E options \in SampleOptions :
          LET precomputed ==
                  buildGenerateSpheresFromGrid(fragMapData.gridData,
                                               fragMapData.gridInfo, BuildIsovalue)
              fragMaps == [t \in {SilcsTypeOf(config.id)} |-> precomputed]
          IN  /\ spheres' = getFragMapSpheres(config.id, config.isoValue[1],
                                              options, fragMaps)
              /\ sampler' = [name |-> "getFragMapSpheres", options |-> options]
    /\ pc' = "sampled"
    /\ UNCHANGED <<format, fileContent, fragMapData, volumeOrigin, dxContent,
                   config, binary>>
    /\ UNCHANGED <<call, previous, restVars>>

NextSample ==
    \/ GenerateSpheresFromGrid
    \/ ParserGenerateSpheresFromGrid
    \/ BinaryGenerateSpheresFromGrid
    \/ GetFragMapSpheres

SpecSample == InitSample /\ [][NextSample]_vars

----------------------------------------------------------------------------
(* The load pipeline: load3DmolSphereFragMap *)

\* values of the served files: -1.0, 1.0 and the numeral Infinity
LoadValues == {0 - Unit, Unit, PosInf}
LoadDims == {<<1, 1, 1>>, <<2, 1, 1>>}

\* the DX files served under /assets/fragmaps-dx: one value per data line
LoadFiles ==
    {DxText(Some(d), Some(<<Unit, 0, 0 - Unit>>), Some(Unit),
            [i \in 1..Len(vs) |-> <<Num(vs[i])>>], FALSE) :
        d \in LoadDims, vs \in SeqsOf(LoadValues, 0, 2)}

\* values a decoded binary buffer can hold
BinaryValues == {0 - Unit, NaN, PosInf}

\* what /assets/fragmaps-binary serves: nothing, a file whose decoding
\* throws, or a grid (whose length need not match its dimensions)
BinaryFiles ==
    {NoData, Thrown}
    \cup {GridOf(d, <<0, 0, 0>>, Unit, values) :
            d \in LoadDims, values \in SeqsOf(BinaryValues, 1, 2)}

BinaryAssets ==
    {NoBinary} \cup {[available |-> TRUE, file |-> f] : f \in BinaryFiles}

\* the configs of config/fragMapTypes.js (isoValue -0.8, 'lower'), as such
\* and as FragMapManager passes them on, and one with an unknown id
LoadConfigs ==
    {[NoConfig EXCEPT !.id = id,
                      !.isoValue = Some(0 - 80),
                      !.thresholdMode = "lower",
                      !.isoValueRange = r,
                      !.maxDistance = r2] :
        id \in {"hydrophobic", "unknown"},
        r \in {Undefined, Some(DefaultIsoValueRange)},
        r2 \in {Undefined, Some(DefaultMaxDistance)}}

\* centres of the ligand model of the viewer, if it has one
LigandCenters == {<<Unit, 0, 0 - Unit>>, <<20 * Unit, 0, 0>>}

InitLoad ==
    /\ pc = "start"
    /\ \/ format = "dx" /\ fileContent \in LoadFiles
       \/ format = "none" /\ fileContent = <<>>
    /\ fragMapData = NoData
    /\ volumeOrigin = <<>>
    /\ dxContent = NoDx
    /\ config \in LoadConfigs
    /\ sampler = NoSampler
    /\ spheres = <<>>
    /\ binary \in BinaryAssets
    /\ call = NoCall
    /\ previous = NoPrevious
    /\ InitRest

\* loadFragMapData up to its first fetch: the id is looked up and the
\* binary index is probed
StartLoad ==
    /\ pc = "start"
    /\ pc' = IF config.id \notin FragMapTypeIds THEN "failed"
             ELSE IF binary.available THEN "binary" ELSE "dx"
    /\ UNCHANGED <<format, fileContent, fragMapData, volumeOrigin, dxContent,
                   config, sampler, spheres, binary>>
    /\ UNCHANGED <<call, previous, restVars>>

\* the binary branch: loadBinaryFragMap and validateFragMapData; any
\* failure falls back to the DX file
LoadBinary ==
    /\ pc = "binary"
    /\ LET binaryData == TryBinary(binary.file)
       IN  IF binaryData.status = "returned"
           THEN fragMapData' = binaryData /\ pc' = "loaded"
           ELSE fragMapData' = fragMapData /\ pc' = "dx"
    /\ UNCHANGED <<format, fileContent, volumeOrigin, dxContent, config, sampler,
                   spheres, binary>>
    /\ UNCHANGED <<call, previous, restVars>>

\* the DX branch: tryLoadFile and validateFragMapData
LoadDx ==
    /\ pc = "dx"
    /\ LET loaded == tryLoadFile(format = "dx", fileContent)
       IN  IF loaded.status = "returned" /\ validateFragMapData(loaded)
           THEN fragMapData' = loaded /\ pc' = "loaded"
           ELSE fragMapData' = fragMapData /\ pc' = "failed"
    /\ UNCHANGED <<format, fileContent, volumeOrigin, dxContent, config, sampler,
                   spheres, binary>>
    /\ UNCHANGED <<call, previous, restVars>>

\* load3DmolSphereFragMap after loadFragMapData has returned: the filter
\* centre is taken from the ligand model and the grid is sampled
Load3DmolSphereFragMap ==
    /\ pc = "loaded"
    /\ \E ligand \in Opt(LigandCenters) :
          LET filterCenter ==
                  IF ~IsDefined(config.selectedProteinPart) THEN ligand
                  ELSE Undefined
              passed == [config EXCEPT !.filterCenter = filterCenter,
                                       !.filterRadius = Some(DefaultFilterRadius)]
          IN  /\ config' = passed
              /\ spheres' = generateSpheresFromGrid(fragMapData, passed)
    /\ sampler' = [NoSampler EXCEPT !.name = "3dmol"]
    /\ pc' = "sampled"
    /\ UNCHANGED <<format, fileContent, fragMapData, volumeOrigin, dxContent,
                   binary>>
    /\ UNCHANGED <<call, previous, restVars>>

NextLoad ==
    \/ StartLoad
    \/ LoadBinary
    \/ LoadDx
    \/ Load3DmolSphereFragMap

SpecLoad == InitLoad /\ [][NextLoad]_vars

----------------------------------------------------------------------------
(* What a text declares, read off the text itself *)

\* the lines whose first token is the word w
LinesWith(content, w) == SelectSeq(content, LAMBDA l : l # <<>> /\ l[1] = Word(w))

\* the three numerals after the key of the first line that starts with w
DeclaredTriple(content, w) ==
    LET ls == LinesWith(content, w)
    IN  IF ls # <<>> /\ Len(ls[1]) = 4 /\ \A k \in 2..4 : IsNum(ls[1][k])
        THEN <<ls[1][2].n, ls[1][3].n, ls[1][4].n>>
        ELSE <<>>

\* NELEMENTS nx ny nz, as plain integers
DeclaredNelements(content) ==
    LET t == DeclaredTriple(content, "NELEMENTS")
    IN  IF t = <<>> THEN <<>> ELSE <<t[1] \div Unit, t[2] \div Unit, t[3] \div Unit>>

DeclaredCenter(content) == DeclaredTriple(content, "CENTER")

DeclaredSpacing(content) ==
    LET ls == LinesWith(content, "SPACING")
    IN  IF ls # <<>> /\ Len(ls[1]) = 2 /\ IsNum(ls[1][2]) THEN <<ls[1][2].n>> ELSE <<>>

\* counts nx ny nz of the grid object, as plain integers
DeclaredCounts(content) ==
    LET ls == SelectSeq(content, LAMBDA l : FindWord(l, "counts") > 0 /\ IncludesGridObject(l))
    IN  IF ls = <<>> THEN <<>>
        ELSE LET i == FindWord(ls[1], "counts")
             IN  <<ls[1][i + 1].n \div Unit, ls[1][i + 2].n \div Unit,
                   ls[1][i + 3].n \div Unit>>

DeclaredOrigin(content) == DeclaredTriple(content, "origin")

\* d when the text holds exactly `delta d 0 0`, `delta 0 d 0`, `delta 0 0 d`
DeclaredDelta(content) ==
    LET ls == LinesWith(content, "delta")
    IN  IF Len(ls) = 3 /\ Len(ls[1]) = 4 /\ IsNum(ls[1][2])
           /\ ls = DeltaLines(ls[1][2].n)
        THEN <<ls[1][2].n>>
        ELSE <<>>

DeclaredDims(content, fmt) ==
    IF fmt = "map" THEN DeclaredNelements(content) ELSE DeclaredCounts(content)

PositiveDims(d) == d # <<>> /\ \A k \in 1..3 : d[k] > 0

\* numerals of the non-comment lines, in file order
RECURSIVE NumbersOf(_)
NumbersOf(lines) ==
    IF lines = <<>> THEN <<>>
    ELSE (IF IsSkipped(Head(lines)) THEN <<>> ELSE LineNumbers(Head(lines)))
            \o NumbersOf(Tail(lines))

\* index of the first line satisfying P, 0 when there is none
FirstLine(content, P(_)) ==
    IF \E i \in 1..Len(content) : P(content[i])
    THEN CHOOSE i \in 1..Len(content) :
            P(content[i]) /\ \A j \in 1..(i - 1) : ~P(content[j])
    ELSE 0

\* native format: the numerals from the first data line onward
MapFileValues(content) ==
    LET i == FirstLine(content, LAMBDA l : ~IsSkipped(l) /\ LeadingNumeric(l))
    IN  IF i = 0 THEN <<>> ELSE NumbersOf(SubSeq(content, i, Len(content)))

\* OpenDX: the declared item count of the array object
DeclaredItems(content) ==
    LET i == FirstLine(content, IncludesDataFollows)
        k == IF i = 0 THEN 0 ELSE FindWord(content[i], "items")
    IN  IF k = 0 THEN 0 ELSE content[i][k + 1].n \div Unit

\* OpenDX: the numerals after the `data follows` marker, up to the item count
DxFileValues(content) ==
    LET i == FirstLine(content, IncludesDataFollows)
        all == IF i = 0 THEN <<>> ELSE NumbersOf(SubSeq(content, i + 1, Len(content)))
        n == DeclaredItems(content)
    IN  SubSeq(all, 1, IF n < Len(all) THEN n ELSE Len(all))

FileValues(content, fmt) ==
    IF fmt = "map" THEN MapFileValues(content) ELSE DxFileValues(content)

\* exactly n values: the first n of vs, or vs followed by zeros
ExactlyN(vs, n) == [i \in 1..n |-> IF i <= Len(vs) THEN vs[i] ELSE 0]

\* center - n * spacing / 2 on each axis
OriginFromCenter(c, d, sp) == [k \in 1..3 |-> c[k] - (d[k] * sp) \div 2]

OriginOf(gi) == <<gi.origin_x, gi.origin_y, gi.origin_z>>

----------------------------------------------------------------------------
(* Claims about the parsers *)

\* C1: for a text whose header declares positive dimensions, the returned
\* grid holds exactly nx*ny*nz values: the first nx*ny*nz numeric values of
\* the file in file order, or all of them followed by zeros.
C1_ExactlyDeclaredCount ==
    LET d == DeclaredDims(fileContent, format)
    IN  (pc = "returned" /\ PositiveDims(d)) =>
            fragMapData.gridData =
                ExactlyN(FileValues(fileContent, format), d[1] * d[2] * d[3])

\* C4: the origin of a native grid is center - n*spacing/2 on each axis in
\* every code path that derives it (parseFragMapFile, calculateGridOrigin,
\* convertToDx).
C4_OriginFromCenter ==
    LET d == DeclaredNelements(fileContent)
        c == DeclaredCenter(fileContent)
        sp == DeclaredSpacing(fileContent)
        expected == OriginFromCenter(c, d, sp[1])
    IN  (format = "map" /\ PositiveDims(d) /\ c # <<>> /\ sp # <<>>) =>
            /\ pc = "returned" =>
                  OriginOf(fragMapData.gridInfo)
                      = <<Some(expected[1]), Some(expected[2]), Some(expected[3])>>
            /\ volumeOrigin # <<>> => volumeOrigin = expected
            /\ dxContent.status = "written" =>
                  DeclaredOrigin(dxContent.text) = expected

\* C5: after parseDxFile, the spacing of the grid is the d of the three
\* axis-aligned delta lines.
C5_SpacingFromDelta ==
    LET d == DeclaredDelta(fileContent)
    IN  (format = "dx" /\ pc = "returned" /\ d # <<>> /\ d[1] > 0) =>
            fragMapData.gridInfo.grid_spacing = Some(d[1])

\* C6: after parseDxFile, the origin of the grid is exactly the x y z of the
\* origin line, also for components equal to 0.
C6_OriginAsDeclared ==
    LET o == DeclaredOrigin(fileContent)
    IN  (format = "dx" /\ pc = "returned" /\ o # <<>>) =>
            OriginOf(fragMapData.gridInfo) = <<Some(o[1]), Some(o[2]), Some(o[3])>>

\* C7: in the native format every numeral from the first data line onward
\* is a grid value, in file order, and no data line becomes a header entry.
C7_AllDataTokensAreValues ==
    (format = "map" /\ pc = "returned") =>
        /\ \A i \in 1..Len(fragMapData.gridInfo.other) :
              fragMapData.gridInfo.other[i].key # "0"
        /\ fragMapData.gridData =
              MapFixLength(MapFileValues(fileContent),
                           MapExpectedPoints(fragMapData.gridInfo))

\* C8: the values parseDxFile returns come only from the numerals between
\* the `data follows` marker and the declared item count.
C8_OnlyDataBlockValues ==
    (format = "dx" /\ pc = "returned") =>
        fragMapData.gridData =
            DxFixLength(DxFileValues(fileContent), Len(fragMapData.gridData))

\* C9: a text that does not declare the grid dimensions ends in a parse
\* error; no grid is returned.
C9_MissingDimensionsIsFatal ==
    DeclaredDims(fileContent, format) = <<>> => pc # "returned"

----------------------------------------------------------------------------
(* Claims about the samplers and the load pipeline *)

\* the scalar a sphere carries, under the name its sampler gives it
ValueOf(s) ==
    IF sampler.name = "3dmol" THEN s.intensity
    ELSE IF sampler.name = "binary" THEN s.value
    ELSE s.energy

\* the direction the sampler runs in: only the 3Dmol sampler has an
\* exclusion mode
Favorable == sampler.name # "3dmol" \/ ThresholdMode(config) = "lower"

\* the inclusion test of the threshold t = isoValue
PassesThreshold(value) ==
    IF Favorable THEN LE(value, config.isoValue[1])
    ELSE GE(value, config.isoValue[1])

PassingIndices ==
    {i \in 1..Len(fragMapData.gridData) : PassesThreshold(fragMapData.gridData[i])}

\* the cap of the sampler that ran
CapOf ==
    IF sampler.name = "3dmol"
    THEN (IF IsDefined(config.maxSpheres) THEN config.maxSpheres[1]
          ELSE DefaultMaxSpheres)
    ELSE IF sampler.name = "parser" THEN ParserMaxSpheres
    ELSE IF IsDefined(sampler.options.maxSpheres) THEN sampler.options.maxSpheres[1]
    ELSE SpheresDefaultMaxSpheres

NoRegionFilterOrCap ==
    /\ ~IsDefined(config.selectedProteinPart)
    /\ ~IsDefined(config.filterCenter)
    /\ Cardinality(PassingIndices) <= CapOf

\* C2: with no region filter or cap in effect, a grid point is emitted if
\* and only if its value <= t (favorable) or >= t (exclusion), t being the
\* isovalue the grid is sampled at.
C2_EmittedIffPassesThreshold ==
    (pc = "sampled" /\ sampler.name \in {"3dmol", "parser", "getFragMapSpheres"}
        /\ NoRegionFilterOrCap) =>
        \A v \in {fragMapData.gridData[i] : i \in DOMAIN fragMapData.gridData}
                    \cup {ValueOf(spheres[k]) : k \in DOMAIN spheres} :
            Cardinality({k \in DOMAIN spheres : ValueOf(spheres[k]) = v})
                = Cardinality({i \in PassingIndices : fragMapData.gridData[i] = v})

\* origin_axis + index_axis * spacing_axis for the 0-based index i, from the
\* origin and the spacing of the grid itself
WorldOf(gridInfo, i) ==
    LET nx == gridInfo.nx[1]
        ny == gridInfo.ny[1]
    IN  <<gridInfo.origin_x[1] + (i % nx) * gridInfo.grid_spacing[1],
          gridInfo.origin_y[1] + ((i \div nx) % ny) * gridInfo.grid_spacing[1],
          gridInfo.origin_z[1] + (i \div (nx * ny)) * gridInfo.grid_spacing[1]>>

\* C3: every point a sampler emits lies at origin + index * spacing of a
\* grid point that holds the point's value, by the origin and spacing of
\* the sampled grid.
C3_WorldCoordinatesFromGrid ==
    (pc = "sampled" /\ sampler.name \in {"3dmol", "parser", "binary"}) =>
        \A k \in DOMAIN spheres :
            \E i \in 0..(Len(fragMapData.gridData) - 1) :
                /\ fragMapData.gridData[i + 1] = ValueOf(spheres[k])
                /\ <<spheres[k].x, spheres[k].y, spheres[k].z>>
                      = WorldOf(fragMapData.gridInfo, i)

\* C10: the load pipeline never hands a grid with a non-finite value to the
\* sampler.
C10_NonFiniteNeverSampled ==
    (pc = "sampled" /\ sampler.name = "3dmol") =>
        \A i \in DOMAIN fragMapData.gridData : IsFinite(fragMapData.gridData[i])


----------------------------------------------------------------------------
(* The two validators, applied to a loaded grid object *)

\* validateFragMapData of fragMapParser.js: dimensions must be truthy numbers
\* above 0, gridData must have nx*ny*nz entries, all finite; an unusual
\* grid_spacing is only logged
parserValidateFragMapData(data) ==
    LET gridInfo == data.gridInfo
        gridData == data.gridData
    IN  /\ data.status = "returned"
        /\ \A p \in {gridInfo.nx, gridInfo.ny, gridInfo.nz} :
              IsDefined(p) /\ Truthy(p[1]) /\ ~(p[1] <= 0)
        /\ Len(gridData) = gridInfo.nx[1] * gridInfo.ny[1] * gridInfo.nz[1]
        /\ \A i \in DOMAIN gridData : IsFinite(gridData[i])

\* gridInfo as a served file or a header can declare it: dimensions -1, 0,
\* 1, 2 and a spacing that is absent, negative, zero or positive
ValidateDims == {-1, 0, 1, 2}
ValidateSpacings == {Undefined, Some(0 - Unit \div 2), Some(0), Some(DefaultGridSpacing)}
ValidateData ==
    {<<0 - Unit>>, <<0 - Unit, Unit>>, <<0 - Unit, Unit, Unit, 0 - Unit>>,
     <<PosInf>>}

ValidateGrids ==
    {GridOf(<<nx, ny, nz>>, <<0, 0, 0>>, Unit, values)
        : nx \in ValidateDims, ny \in ValidateDims, nz \in {1, 2},
          values \in ValidateData}

InitValidate ==
    /\ pc = "grid"
    /\ format = "none"
    /\ fileContent = <<>>
    /\ \E g \in ValidateGrids, sp \in ValidateSpacings :
          fragMapData = [g EXCEPT !.gridInfo.grid_spacing = sp]
    /\ volumeOrigin = <<>>
    /\ dxContent = NoDx
    /\ config = NoConfig
    /\ sampler = NoSampler
    /\ spheres = <<>>
    /\ binary = NoBinary
    /\ call = NoCall
    /\ previous = NoPrevious
    /\ InitRest

\* fragMapLoader.js validates the grid it loaded
ValidateFragMapData ==
    /\ pc = "grid"
    /\ call' = [NoCall EXCEPT !.name = "fragMapLoader.validateFragMapData"]
    /\ pc' = IF validateFragMapData(fragMapData) THEN "accepted" ELSE "rejected"
    /\ UNCHANGED <<format, fileContent, fragMapData, volumeOrigin, dxContent,
                   config, sampler, spheres, binary, previous, restVars>>

\* fragMapParser.js validates the grid
ParserValidateFragMapData ==
    /\ pc = "grid"
    /\ call' = [NoCall EXCEPT !.name = "fragMapParser.validateFragMapData"]
    /\ pc' = IF parserValidateFragMapData(fragMapData) THEN "accepted"
             ELSE "rejected"
    /\ UNCHANGED <<format, fileContent, fragMapData, volumeOrigin, dxContent,
                   config, sampler, spheres, binary, previous, restVars>>

NextValidate ==
    \/ ValidateFragMapData
    \/ ParserValidateFragMapData

SpecValidate == InitValidate /\ [][NextValidate]_vars

\* C11: validation accepts no grid with an axis dimension <= 0 or with a
\* declared grid spacing <= 0
C11_InvalidGeometryRejected ==
    (pc = "accepted") =>
        /\ \A p \in {fragMapData.gridInfo.nx, fragMapData.gridInfo.ny,
                     fragMapData.gridInfo.nz} : IsDefined(p) /\ p[1] > 0
        /\ IsDefined(fragMapData.gridInfo.grid_spacing)
              => fragMapData.gridInfo.grid_spacing[1] > 0


----------------------------------------------------------------------------
(* Sampling one grid twice: fragMapParser.js at its sphere limit *)

\* the isovalues a grid is sampled at: -0.8 and -0.5
ResampleIsoValues == {0 - DefaultGridSpacing, 0 - Unit \div 2}

\* Grids of maxSpheres or maxSpheres + 1 points in one row: `first` points
\* of value v1, then points of value v2
CapGrid(n, first, v1, v2) ==
    GridOf(<<n, 1, 1>>, <<0, 0, 0>>, ParserGridSpacing,
           [i \in 1..n |-> IF i <= first THEN v1 ELSE v2])

CapValues == {0 - Unit, 0 - Unit + Unit \div 4}

\* Grids of two rows that hold maxSpheres + 2 points together
CapPlane(first, v1, v2) ==
    GridOf(<<(ParserMaxSpheres + 2) \div 2, 2, 1>>, <<0, 0, 0>>,
           ParserGridSpacing,
           [i \in 1..(ParserMaxSpheres + 2) |-> IF i <= first THEN v1 ELSE v2])

CapGrids ==
    {CapGrid(n, first, v1, v2) :
        n \in {ParserMaxSpheres, ParserMaxSpheres + 1},
        first \in {1, ParserMaxSpheres - 1, ParserMaxSpheres},
        v1 \in CapValues, v2 \in CapValues \cup {0 - Unit \div 2 - Unit \div 10}}
    \cup {CapPlane(first, v1, v2) :
              first \in {1, ParserMaxSpheres},
              v1 \in CapValues, v2 \in CapValues \cup {0 - Unit \div 2 - Unit \div 10}}

CapConfigs ==
    {[NoConfig EXCEPT !.id = "hydrophobic", !.isoValue = Some(t),
                      !.thresholdMode = "lower"] : t \in ResampleIsoValues}

InitCap ==
    /\ pc = "grid"
    /\ format = "none"
    /\ fileContent = <<>>
    /\ fragMapData \in CapGrids
    /\ volumeOrigin = <<>>
    /\ dxContent = NoDx
    /\ config \in CapConfigs
    /\ sampler = NoSampler
    /\ spheres = <<>>
    /\ binary = NoBinary
    /\ call = NoCall
    /\ previous = NoPrevious
    /\ InitRest

\* fragMapParser.js samples the same grid again, at an isovalue of the set
ParserGenerateSpheresFromGridAgain ==
    /\ pc = "sampled"
    /\ sampler.name = "parser"
    /\ \E t \in ResampleIsoValues :
          /\ config' = [config EXCEPT !.isoValue = Some(t)]
          /\ spheres' = parserGenerateSpheresFromGrid(fragMapData.gridData,
                                                      fragMapData.gridInfo, t)
    /\ previous' = [called |-> TRUE, config |-> config, spheres |-> spheres]
    /\ UNCHANGED restVars
    /\ pc' = "resampled"
    /\ UNCHANGED <<format, fileContent, fragMapData, volumeOrigin, dxContent,
                   sampler, binary, call>>

NextCap ==
    \/ ParserGenerateSpheresFromGrid
    \/ ParserGenerateSpheresFromGridAgain

SpecCap == InitCap /\ [][NextCap]_vars

\* both calls ran in favorable mode (value <= threshold)
BothFavorable ==
    sampler.name # "3dmol"
        \/ (ThresholdMode(previous.config) = "lower" /\ ThresholdMode(config) = "lower")

\* C12: in favorable mode, every point returned for the threshold t1 is
\* also returned for every threshold t2 > t1 on the same grid, also when
\* the sphere limit is reached
C12_ThresholdMonotone ==
    (pc = "resampled" /\ BothFavorable
        /\ previous.config.isoValue[1] < config.isoValue[1]) =>
        {previous.spheres[k] : k \in DOMAIN previous.spheres}
            \subseteq {spheres[k] : k \in DOMAIN spheres}


\* the values of the candidates of the sampler that ran: the grid points
\* that pass its threshold test (and its region test), in grid order
CandidateValues ==
    IF sampler.name = "3dmol"
    THEN LET pushed == PushedSpheres(fragMapData, config)
         IN  [k \in DOMAIN pushed |-> pushed[k].intensity]
    ELSE LET visited == ParserEligible(fragMapData.gridData, fragMapData.gridInfo,
                                       config.isoValue[1])
         IN  [k \in DOMAIN visited |-> fragMapData.gridData[visited[k] + 1]]

\* how often the value v occurs in the sequence of values vs
Occurrences(vs, v) == Cardinality({k \in DOMAIN vs : vs[k] = v})

\* the values of the candidates that are not in the output
DroppedValues ==
    LET out == [k \in DOMAIN spheres |-> ValueOf(spheres[k])]
    IN  {v \in {CandidateValues[k] : k \in DOMAIN CandidateValues} :
            Occurrences(out, v) < Occurrences(CandidateValues, v)}

\* C13: when more candidates pass the threshold than the cap, exactly cap
\* points are returned, no dropped candidate ranks before a kept one by
\* value (lower first in favorable mode, higher first in exclusion mode),
\* and the output is ordered by value in that direction
C13_CapKeepsBestByValue ==
    (pc = "sampled" /\ sampler.name \in {"3dmol", "parser"}
        /\ Len(CandidateValues) > CapOf) =>
        /\ Len(spheres) = CapOf
        /\ \A v \in DroppedValues : \A k \in DOMAIN spheres :
              IF Favorable THEN ~LT(v, ValueOf(spheres[k]))
              ELSE ~LT(ValueOf(spheres[k]), v)
        /\ \A k \in 1..(Len(spheres) - 1) :
              IF Favorable THEN ~LT(ValueOf(spheres[k + 1]), ValueOf(spheres[k]))
              ELSE ~LT(ValueOf(spheres[k]), ValueOf(spheres[k + 1]))


----------------------------------------------------------------------------
(* Sampling one grid twice: small grids, both samplers *)

\* 2 x 2 x 1 grids of spacing 1 at the origin, values -1.0, -0.75, -0.6
ResampleValues == CapValues \cup {0 - Unit \div 2 - Unit \div 10}
ResampleGrids ==
    {GridOf(<<2, 2, 1>>, <<0, 0, 0>>, Unit, values) :
        values \in [1..4 -> ResampleValues]}

\* no region, or the points within 1 A of the origin
ResampleRegions ==
    {[filterCenter |-> Undefined, filterRadius |-> Undefined],
     [filterCenter |-> Some(<<0, 0, 0>>), filterRadius |-> Some(Unit)]}

ResampleConfigs ==
    {[NoConfig EXCEPT !.id = "hydrophobic",
                      !.isoValue = Some(t),
                      !.thresholdMode = m,
                      !.isoValueRange = r,
                      !.maxSpheres = ms,
                      !.filterCenter = reg.filterCenter,
                      !.filterRadius = reg.filterRadius] :
        t \in ResampleIsoValues, m \in {"", "lower", "higher"},
        r \in {Undefined, Some(0)}, ms \in {Undefined, Some(1), Some(2)},
        reg \in ResampleRegions}

InitResample ==
    /\ pc = "grid"
    /\ format = "none"
    /\ fileContent = <<>>
    /\ fragMapData \in ResampleGrids
    /\ volumeOrigin = <<>>
    /\ dxContent = NoDx
    /\ config \in ResampleConfigs
    /\ sampler = NoSampler
    /\ spheres = <<>>
    /\ binary = NoBinary
    /\ call = NoCall
    /\ previous = NoPrevious
    /\ InitRest

\* 3dmolFragMapLoader.js samples the same grid again, under the same config
\* but for the isovalue, which is one of the set
GenerateSpheresFromGridAgain ==
    /\ pc = "sampled"
    /\ sampler.name = "3dmol"
    /\ \E t \in ResampleIsoValues :
          /\ config' = [config EXCEPT !.isoValue = Some(t)]
          /\ spheres' \in generateSpheresFromGridResults(fragMapData, config')
    /\ previous' = [called |-> TRUE, config |-> config, spheres |-> spheres]
    /\ UNCHANGED restVars
    /\ pc' = "resampled"
    /\ UNCHANGED <<format, fileContent, fragMapData, volumeOrigin, dxContent,
                   sampler, binary, call>>

NextResample ==
    \/ GenerateSpheresFromGrid
    \/ ParserGenerateSpheresFromGrid
    \/ GenerateSpheresFromGridAgain
    \/ ParserGenerateSpheresFromGridAgain

SpecResample == InitResample /\ [][NextResample]_vars

C15_DirectionIsConfiguredMode ==
    (pc = "sampled" /\ sampler.name \in {"3dmol", "binary"}
        /\ config.thresholdMode # "") =>
        \A k \in DOMAIN spheres :
            IF config.thresholdMode = "lower"
            THEN LE(ValueOf(spheres[k]), config.isoValue[1])
            ELSE GE(ValueOf(spheres[k]), config.isoValue[1])


----------------------------------------------------------------------------
(* spatialFilter.js: the region filter *)

\* Math.sqrt on fixed-point numbers, rounded down to 1/100; exact when n is
\* a square
RECURSIVE SqrtFrom(_, _)
SqrtFrom(n, r) ==
    LET next == (r + n \div r) \div 2
    IN  IF next >= r THEN r ELSE SqrtFrom(n, next)

Sqrt(n) == IF n = 0 THEN 0 ELSE SqrtFrom(n, n)

Min(a, b) == IF a <= b THEN a ELSE b
Max(a, b) == IF a >= b THEN a ELSE b

\* calculateDistance: points are records with x, y, z
calculateDistance(point1, point2) ==
    LET dx == point1.x - point2.x
        dy == point1.y - point2.y
        dz == point1.z - point2.z
    IN  Sqrt(dx * dx + dy * dy + dz * dz)

\* a sphere as the filter sees it: the fields the filter adds are absent
\* (Undefined) until it sets them
InputSphere(x, y, z, energy) ==
    [x |-> x, y |-> y, z |-> z, energy |-> energy,
     minDistance |-> Undefined, proximityScore |-> Undefined,
     energyWeight |-> Undefined, energyScore |-> Undefined,
     combinedScore |-> Undefined]

\* a score, as a fraction num / den with den > 0
Score(num, den) == [num |-> num, den |-> den]
ScoreLess(a, b) ==
    IF a.den = b.den THEN a.num < b.num ELSE a.num * b.den < b.num * a.den

\* the inner loop of filterSpheresByProximity over residues[i..]: the
\* running minimum, left as soon as it is within maxDistance
RECURSIVE ProximityScan(_, _, _, _, _)
ProximityScan(sphere, residues, i, minDistance, maxDistance) ==
    IF i > Len(residues) THEN minDistance
    ELSE IF IsDefined(residues[i].coordinates)
    THEN LET distance == calculateDistance(sphere, residues[i].coordinates[1])
             closer == Min(minDistance, distance)
         IN  IF closer <= maxDistance THEN closer
             ELSE ProximityScan(sphere, residues, i + 1, closer, maxDistance)
    ELSE ProximityScan(sphere, residues, i + 1, minDistance, maxDistance)

DefaultProximityDistance == 5 * Unit

filterSpheresByProximity(points, residues, maxDistance) ==
    IF Len(residues) = 0 THEN points
    ELSE LET MinDistanceOf(sphere) ==
                 ProximityScan(sphere, residues, 1, PosInf, maxDistance)
             Within(sphere) == MinDistanceOf(sphere) <= maxDistance
             within == SelectSeq(points, Within)
         IN  [k \in 1..Len(within) |->
                 [within[k] EXCEPT
                     !.minDistance = Some(MinDistanceOf(within[k])),
                     !.proximityScore =
                         Some(Score(maxDistance - MinDistanceOf(within[k]),
                                    maxDistance))]]

\* calculateEnergyWeight: (2.0 - clamp(energy, -2.0, 2.0)) / 4.0
calculateEnergyWeight(energy) ==
    LET normalizedEnergy == Max(0 - 2 * Unit, Min(2 * Unit, energy))
    IN  Score(2 * Unit - normalizedEnergy, 4 * Unit)

\* calculateCombinedScore: (sphere.proximityScore || 0) * 0.6 + energyScore * 0.4
calculateCombinedScore(sphere) ==
    LET proximityScore == IF IsDefined(sphere.proximityScore)
                          THEN sphere.proximityScore[1] ELSE Score(0, 1)
        energyScore == calculateEnergyWeight(sphere.energy)
    IN  Score(6 * proximityScore.num * energyScore.den
                  + 4 * energyScore.num * proximityScore.den,
              10 * proximityScore.den * energyScore.den)

\* spheres.sort((a, b) => b.combinedScore - a.combinedScore)
SortByCombinedScore(points) ==
    SortBy(points, LAMBDA a, b : ScoreLess(b.combinedScore[1], a.combinedScore[1]))

\* spheres.filter(sphere => sphere.energy <= energyThreshold).map(...)
WeightedSpheres(points, energyThreshold) ==
    LET Passes(sphere) == sphere.energy <= energyThreshold
        passing == SelectSeq(points, Passes)
    IN  [k \in 1..Len(passing) |->
            [passing[k] EXCEPT
                !.energyWeight = Some(calculateEnergyWeight(passing[k].energy)),
                !.combinedScore = Some(calculateCombinedScore(passing[k]))]]

weightSpheresByEnergy(points, energyThreshold) ==
    SortByCombinedScore(WeightedSpheres(points, energyThreshold))

\* calculateRegionSize: the largest extent of the residues' coordinates
calculateRegionSize(residues) ==
    LET located == {i \in DOMAIN residues : IsDefined(residues[i].coordinates)}
        Extent(Axis(_)) ==
            LET cs == {Axis(residues[i].coordinates[1]) : i \in located}
            IN  (CHOOSE hi \in cs : \A c \in cs : c <= hi)
                  - (CHOOSE lo \in cs : \A c \in cs : lo <= c)
        ex == Extent(LAMBDA c : c.x)
        ey == Extent(LAMBDA c : c.y)
        ez == Extent(LAMBDA c : c.z)
    IN  IF Len(residues) = 0 THEN 0
        ELSE IF located = {} THEN NegInf
        ELSE Max3(ex, ey, ez)

\* the options of createRegionFilter and enhancedSpatialFilter; a field left
\* out by the caller is Undefined and takes its default
NoFilterOptions ==
    [maxDistance |-> Undefined, energyThreshold |-> Undefined,
     maxSpheres |-> Undefined, adaptiveDistance |-> Undefined,
     preserveHighEnergy |-> Undefined, highEnergyPercentile |-> Undefined,
     detailPreservationRadius |-> Undefined]

\* a destructuring default: it applies to a field that is undefined
OptionOr(p, d) == IF IsDefined(p) THEN p[1] ELSE d

RegionDefaultMaxSpheres == 5000
RegionSizeScale == 20

\* createRegionFilter: the values its closure holds
createRegionFilter(residues, options) ==
    LET maxDistance == OptionOr(options.maxDistance, DefaultProximityDistance)
        energyThreshold == OptionOr(options.energyThreshold, 0)
        maxSpheres == OptionOr(options.maxSpheres, RegionDefaultMaxSpheres)
        adaptiveDistance == OptionOr(options.adaptiveDistance, TRUE)
        regionSize == calculateRegionSize(residues)
        \* maxDistance * (1.0 + regionSize / 20.0)
        effectiveMaxDistance ==
            IF adaptiveDistance /\ Len(residues) > 0
            THEN IF regionSize = NegInf THEN NegInf
                 ELSE (maxDistance * (RegionSizeScale * Unit + regionSize))
                          \div (RegionSizeScale * Unit)
            ELSE maxDistance
    IN  [residues |-> residues, effectiveMaxDistance |-> effectiveMaxDistance,
         energyThreshold |-> energyThreshold, maxSpheres |-> maxSpheres]

\* the filter function of the object createRegionFilter returns
RegionFilter(filter, points) ==
    LET proximityFiltered ==
            filterSpheresByProximity(points, filter.residues,
                                     filter.effectiveMaxDistance)
        energyFiltered == weightSpheresByEnergy(proximityFiltered,
                                                filter.energyThreshold)
    IN  Slice(energyFiltered, filter.maxSpheres)

\* the minimum distance over all residues that have coordinates
MinDistanceToResidues(sphere, residues) ==
    LET ds == {calculateDistance(sphere, residues[i].coordinates[1]) :
                  i \in {j \in DOMAIN residues : IsDefined(residues[j].coordinates)}}
    IN  IF ds = {} THEN PosInf ELSE CHOOSE d \in ds : \A e \in ds : d <= e

EnhancedDefaultMaxDistance == 25 * Unit
EnhancedDefaultEnergyThreshold == 0 - DefaultGridSpacing
EnhancedDefaultMaxSpheres == 8000
EnhancedDefaultPercentile == 10
EnhancedDetailMargin == Unit \div 2

\* the options of enhancedSpatialFilter after destructuring
EnhancedOptions(options) ==
    [maxDistance |-> OptionOr(options.maxDistance, EnhancedDefaultMaxDistance),
     energyThreshold |-> OptionOr(options.energyThreshold,
                                  EnhancedDefaultEnergyThreshold),
     maxSpheres |-> OptionOr(options.maxSpheres, EnhancedDefaultMaxSpheres),
     adaptiveDistance |-> OptionOr(options.adaptiveDistance, TRUE),
     preserveHighEnergy |-> OptionOr(options.preserveHighEnergy, TRUE),
     highEnergyPercentile |-> OptionOr(options.highEnergyPercentile,
                                       EnhancedDefaultPercentile),
     detailPreservationRadius |-> OptionOr(options.detailPreservationRadius,
                                           DefaultProximityDistance)]

\* spheres.map(s => s.energy).sort((a, b) => a - b)
SortedEnergies(points) ==
    SortBy([k \in DOMAIN points |-> points[k].energy], LAMBDA a, b : a < b)

\* energies[Math.floor(energies.length * (highEnergyPercentile / 100))]:
\* undefined when the index is past the end of the array
highEnergyThreshold(points, highEnergyPercentile) ==
    LET energies == SortedEnergies(points)
        index == (Len(energies) * highEnergyPercentile) \div 100
    IN  IF index < Len(energies) THEN Some(energies[index + 1]) ELSE Undefined

\* whether the high-energy spheres are set aside
SeparatesHighEnergy(points, options) ==
    EnhancedOptions(options).preserveHighEnergy /\ Len(points) > 0

\* spheres.filter(s => s.energy <= highEnergyThreshold): a comparison with
\* undefined is false
highEnergySpheres(points, options) ==
    LET threshold == highEnergyThreshold(points,
                         EnhancedOptions(options).highEnergyPercentile)
        IsHigh(sphere) == IsDefined(threshold) /\ sphere.energy <= threshold[1]
    IN  IF SeparatesHighEnergy(points, options) THEN SelectSeq(points, IsHigh)
        ELSE <<>>

\* spheres.filter(s => s.energy > highEnergyThreshold), or [...spheres]
regularSpheres(points, options) ==
    LET threshold == highEnergyThreshold(points,
                         EnhancedOptions(options).highEnergyPercentile)
        IsRegular(sphere) == IsDefined(threshold) /\ sphere.energy > threshold[1]
    IN  IF SeparatesHighEnergy(points, options) THEN SelectSeq(points, IsRegular)
        ELSE points

\* highEnergyThreshold.toFixed(3) in the log line throws a TypeError when
\* the threshold is undefined
enhancedSpatialFilterThrows(points, options) ==
    /\ SeparatesHighEnergy(points, options)
    /\ ~IsDefined(highEnergyThreshold(points,
                      EnhancedOptions(options).highEnergyPercentile))

\* the region filter enhancedSpatialFilter creates for the regular spheres
EnhancedRegionFilter(points, residues, options) ==
    LET o == EnhancedOptions(options)
    IN  createRegionFilter(residues,
            [NoFilterOptions EXCEPT
                !.maxDistance = Some(o.maxDistance),
                !.energyThreshold = Some(o.energyThreshold),
                !.maxSpheres = Some(o.maxSpheres
                                      - Len(highEnergySpheres(points, options))),
                !.adaptiveDistance = Some(o.adaptiveDistance)])

\* the scoring pass over the combined spheres
RescoredSphere(sphere, residues, options) ==
    LET o == EnhancedOptions(options)
        minDistance == MinDistanceToResidues(sphere, residues)
        proximityScore ==
            IF minDistance <= o.maxDistance
            THEN Score(o.maxDistance - minDistance, o.maxDistance)
            ELSE Score(0, o.maxDistance)
        energyScore == calculateEnergyWeight(sphere.energy)
        \* detailBonus = 0.3, in tenths
        detailBonus ==
            IF o.preserveHighEnergy
                  /\ sphere.energy <= o.energyThreshold - EnhancedDetailMargin
                  /\ minDistance <= o.detailPreservationRadius
            THEN 3 ELSE 0
    IN  [sphere EXCEPT
            !.minDistance = Some(minDistance),
            !.proximityScore = Some(proximityScore),
            !.energyScore = Some(energyScore),
            !.combinedScore =
                Some(Score(5 * proximityScore.num * energyScore.den
                               + 3 * energyScore.num * proximityScore.den
                               + detailBonus * proximityScore.den
                                     * energyScore.den,
                           10 * proximityScore.den * energyScore.den))]

\* [...highEnergySpheres, ...filteredRegular]
combinedSpheres(points, residues, options) ==
    highEnergySpheres(points, options)
        \o RegionFilter(EnhancedRegionFilter(points, residues, options),
                        regularSpheres(points, options))

RescoredSpheres(points, residues, options) ==
    LET combined == combinedSpheres(points, residues, options)
    IN  [k \in 1..Len(combined) |-> RescoredSphere(combined[k], residues, options)]

\* what enhancedSpatialFilter returns when it does not throw
enhancedSpatialFilter(points, residues, options) ==
    Slice(SortByCombinedScore(RescoredSpheres(points, residues, options)),
          EnhancedOptions(options).maxSpheres)

----------------------------------------------------------------------------
(* The region filter on small point sets *)

\* input points on the x axis, 1, 3 and 10 A from the origin, of energy
\* -2.0 or -1.0
RegionDistances == {Unit, 3 * Unit, 10 * Unit}
RegionEnergies == {0 - 2 * Unit, 0 - Unit}
RegionPoints ==
    {InputSphere(x, 0, 0, energy) : x \in RegionDistances, energy \in RegionEnergies}

MaxPoints == 3

RegionPointSets == UNION {[1..n -> RegionPoints] : n \in 0..MaxPoints}

\* residues at the origin and 4 A along the x axis
Residue(x) == [coordinates |-> Some([x |-> x, y |-> 0, z |-> 0])]
RegionResidues ==
    {<<>>, <<Residue(0)>>, <<Residue(4 * Unit)>>,
     <<Residue(0), Residue(4 * Unit)>>, <<Residue(4 * Unit), Residue(0)>>}

\* highEnergyPercentile: the ends of its range and the middle
RegionPercentiles == {0, 50, 100}

RegionOptions ==
    {[NoFilterOptions EXCEPT !.maxDistance = md, !.energyThreshold = et,
                             !.maxSpheres = ms, !.adaptiveDistance = ad,
                             !.preserveHighEnergy = ph] :
        md \in {Undefined, Some(DefaultProximityDistance)},
        et \in {Undefined, Some(0 - 3 * Unit)},
        ms \in {Undefined, Some(0), Some(1)},
        ad \in {Undefined, Some(FALSE)},
        ph \in {Undefined, Some(FALSE)}}
    \cup {[NoFilterOptions EXCEPT !.highEnergyPercentile = Some(p)] :
              p \in RegionPercentiles}

InitRegion ==
    /\ pc = "points"
    /\ format = "none"
    /\ fileContent = <<>>
    /\ fragMapData = NoData
    /\ volumeOrigin = <<>>
    /\ dxContent = NoDx
    /\ config = NoConfig
    /\ sampler = NoSampler
    /\ spheres = <<>>
    /\ binary = NoBinary
    /\ \E points \in RegionPointSets, residues \in RegionResidues,
          options \in RegionOptions :
          call = [name |-> "", spheres |-> points, residues |-> residues,
                  options |-> options]
    /\ previous = NoPrevious
    /\ InitRest

\* filterSpheresByProximity(spheres, residues, maxDistance)
FilterSpheresByProximity ==
    /\ pc = "points"
    /\ spheres' = filterSpheresByProximity(
                      call.spheres, call.residues,
                      OptionOr(call.options.maxDistance, DefaultProximityDistance))
    /\ call' = [call EXCEPT !.name = "filterSpheresByProximity"]
    /\ pc' = "filtered"
    /\ UNCHANGED <<format, fileContent, fragMapData, volumeOrigin, dxContent,
                   config, sampler, binary, previous, restVars>>

\* weightSpheresByEnergy(spheres, energyThreshold)
WeightSpheresByEnergy ==
    /\ pc = "points"
    /\ spheres' = weightSpheresByEnergy(call.spheres,
                                        OptionOr(call.options.energyThreshold, 0))
    /\ call' = [call EXCEPT !.name = "weightSpheresByEnergy"]
    /\ pc' = "filtered"
    /\ UNCHANGED <<format, fileContent, fragMapData, volumeOrigin, dxContent,
                   config, sampler, binary, previous, restVars>>

\* createRegionFilter(residues, options).filter(spheres)
CreateRegionFilter ==
    /\ pc = "points"
    /\ spheres' = RegionFilter(createRegionFilter(call.residues, call.options),
                               call.spheres)
    /\ call' = [call EXCEPT !.name = "createRegionFilter"]
    /\ pc' = "filtered"
    /\ UNCHANGED <<format, fileContent, fragMapData, volumeOrigin, dxContent,
                   config, sampler, binary, previous, restVars>>

\* enhancedSpatialFilter(spheres, residues, options)
EnhancedSpatialFilter ==
    /\ pc = "points"
    /\ IF enhancedSpatialFilterThrows(call.spheres, call.options)
       THEN /\ spheres' = <<>>
            /\ pc' = "thrown"
       ELSE /\ spheres' = enhancedSpatialFilter(call.spheres, call.residues,
                                                call.options)
            /\ pc' = "filtered"
    /\ call' = [call EXCEPT !.name = "enhancedSpatialFilter"]
    /\ UNCHANGED <<format, fileContent, fragMapData, volumeOrigin, dxContent,
                   config, sampler, binary, previous, restVars>>

NextRegion ==
    \/ FilterSpheresByProximity
    \/ WeightSpheresByEnergy
    \/ CreateRegionFilter
    \/ EnhancedSpatialFilter

SpecRegion == InitRegion /\ [][NextRegion]_vars


\* the maxDistance the call was given, or the default of the function called
BaseMaxDistance ==
    OptionOr(call.options.maxDistance,
             IF call.name = "enhancedSpatialFilter" THEN EnhancedDefaultMaxDistance
             ELSE DefaultProximityDistance)

\* the maxDistance in effect: the base distance, scaled by the extent of the
\* residues where the function called scales it
EffectiveMaxDistance ==
    IF call.name = "filterSpheresByProximity" THEN BaseMaxDistance
    ELSE createRegionFilter(call.residues,
                            [call.options EXCEPT !.maxDistance = Some(BaseMaxDistance)]
                           ).effectiveMaxDistance

\* C16: with a non-empty anchor set, every point the region filter returns
\* lies within the effective maxDistance of some anchor
C16_NoPointBeyondMaxDistance ==
    (pc = "filtered"
        /\ call.name \in {"filterSpheresByProximity", "createRegionFilter",
                          "enhancedSpatialFilter"}
        /\ Len(call.residues) > 0) =>
        \A k \in DOMAIN spheres :
            MinDistanceToResidues(spheres[k], call.residues) <= EffectiveMaxDistance


\* C17: the minDistance recorded for a kept point is the minimum distance
\* from the point to any anchor, and its proximityScore is 1 - minDistance /
\* maxDistance for that minimum, whatever the order of the anchors
C17_MinDistanceIsMinimum ==
    (pc = "filtered"
        /\ call.name \in {"filterSpheresByProximity", "createRegionFilter"}
        /\ Len(call.residues) > 0) =>
        \A k \in DOMAIN spheres :
            LET minDistance == MinDistanceToResidues(spheres[k], call.residues)
            IN  /\ spheres[k].minDistance = Some(minDistance)
                /\ spheres[k].proximityScore
                      = Some(Score(EffectiveMaxDistance - minDistance,
                                   EffectiveMaxDistance))



\* the energy threshold in effect: the one the call was given, or the default
\* of the function called
EnergyThresholdInEffect ==
    OptionOr(call.options.energyThreshold,
             IF call.name = "enhancedSpatialFilter"
             THEN EnhancedDefaultEnergyThreshold ELSE 0)

\* a candidate: an input point that passes the distance test (there is none
\* without residues) and the energy test
IsCandidate(sphere) ==
    /\ Len(call.residues) > 0
          => MinDistanceToResidues(sphere, call.residues) <= EffectiveMaxDistance
    /\ sphere.energy <= EnergyThresholdInEffect

Candidates == SelectSeq(call.spheres, IsCandidate)

SamePoint(a, b) ==
    a.x = b.x /\ a.y = b.y /\ a.z = b.z /\ a.energy = b.energy

\* a candidate is dropped when the output holds fewer copies of it than the
\* candidates do
IsDropped(sphere) ==
    Cardinality({k \in DOMAIN spheres : SamePoint(spheres[k], sphere)})
        < Cardinality({k \in DOMAIN Candidates : SamePoint(Candidates[k], sphere)})

\* the composite score the function called gives a candidate: the score the
\* point carries when it is filtered on its own
CompositeScore(sphere) ==
    LET alone == [call.options EXCEPT !.maxSpheres = Some(1)]
        result == IF call.name = "enhancedSpatialFilter"
                  THEN enhancedSpatialFilter(<<sphere>>, call.residues, alone)
                  ELSE RegionFilter(createRegionFilter(call.residues, alone),
                                    <<sphere>>)
    IN  result[1].combinedScore[1]

\* C18: the output of the region filter is in non-increasing order of
\* composite score, and no candidate it dropped has a higher composite score
\* than a point it kept
C18_OrderedByCompositeScore ==
    (pc = "filtered"
        /\ call.name \in {"createRegionFilter", "enhancedSpatialFilter"}) =>
        /\ \A k \in 1..(Len(spheres) - 1) :
              ~ScoreLess(spheres[k].combinedScore[1],
                         spheres[k + 1].combinedScore[1])
        /\ \A i \in DOMAIN Candidates : \A k \in DOMAIN spheres :
              IsDropped(Candidates[i])
                  => ~ScoreLess(spheres[k].combinedScore[1],
                                CompositeScore(Candidates[i]))



\* the maxSpheres in effect: the one the call was given, or the default of
\* the function called
MaxSpheresInEffect ==
    OptionOr(call.options.maxSpheres,
             IF call.name = "enhancedSpatialFilter"
             THEN EnhancedDefaultMaxSpheres ELSE RegionDefaultMaxSpheres)

\* C19: a region filter limited to N points returns exactly
\* min(N, candidateCount) points, the candidates being the input points that
\* pass the distance and the energy test
C19_ReturnsMinOfLimitAndCandidates ==
    (pc = "filtered"
        /\ call.name \in {"createRegionFilter", "enhancedSpatialFilter"}
        /\ MaxSpheresInEffect >= 0) =>
        Len(spheres) = Min(MaxSpheresInEffect, Len(Candidates))



\* the call has no anchor: the function called takes residues and got none
EmptyAnchorSet ==
    /\ call.name \in {"filterSpheresByProximity", "createRegionFilter",
                      "enhancedSpatialFilter"}
    /\ Len(call.residues) = 0

\* the function called applies an energy threshold and no input point is at
\* or below it
NoPointSatisfiesThreshold ==
    /\ call.name \in {"weightSpheresByEnergy", "createRegionFilter",
                      "enhancedSpatialFilter"}
    /\ \A k \in DOMAIN call.spheres :
          call.spheres[k].energy > EnergyThresholdInEffect

\* C20: region filtering with no anchor, with no input point, or with a
\* threshold no point satisfies returns the empty point set
C20_DegenerateInputsGiveEmptySet ==
    (pc = "filtered"
        /\ (EmptyAnchorSet \/ Len(call.spheres) = 0 \/ NoPointSatisfiesThreshold)) =>
        spheres = <<>>



----------------------------------------------------------------------------
(* The search radius of a region: createRegionFilter and
   getMaxDistanceForRegion *)

RegionBaseDistance == 5 * Unit
RegionMaxScale == 2 * Unit

\* getMaxDistanceForRegion: baseDistance * Math.min(2.0, 1.0 + regionSize / 20.0)
getMaxDistanceForRegion(residues) ==
    LET regionSize == calculateRegionSize(residues)
        scaleFactor == IF regionSize = NegInf THEN NegInf
                       ELSE Min(RegionMaxScale,
                                Unit + (regionSize * Unit) \div (RegionSizeScale * Unit))
    IN  IF Len(residues) = 0 THEN RegionBaseDistance
        ELSE IF scaleFactor = NegInf THEN NegInf
        ELSE (RegionBaseDistance * scaleFactor) \div Unit

\* residues along the x axis, up to 40 A apart, and one without coordinates
ScalePositions == {0, 4 * Unit, 10 * Unit, 20 * Unit, 30 * Unit, 40 * Unit}
ScaleResidue == {Residue(x) : x \in ScalePositions} \cup {[coordinates |-> Undefined]}
MaxResidues == 2
ScaleResidues == UNION {[1..n -> ScaleResidue] : n \in 0..MaxResidues}

ScaleOptions ==
    {[NoFilterOptions EXCEPT !.maxDistance = md, !.adaptiveDistance = ad] :
        md \in {Undefined, Some(RegionBaseDistance)},
        ad \in {Undefined, Some(TRUE), Some(FALSE)}}

InitScale ==
    /\ pc = "residues"
    /\ format = "none"
    /\ fileContent = <<>>
    /\ fragMapData = NoData
    /\ volumeOrigin = <<>>
    /\ dxContent = NoDx
    /\ config = NoConfig
    /\ sampler = NoSampler
    /\ spheres = <<>>
    /\ binary = NoBinary
    /\ \E residues \in ScaleResidues, options \in ScaleOptions :
          call = [name |-> "", spheres |-> <<>>, residues |-> residues,
                  options |-> options]
    /\ previous = NoPrevious
    /\ InitRest

\* getMaxDistanceForRegion(residues)
GetMaxDistanceForRegion ==
    /\ pc = "residues"
    /\ regionDistance' = Some(getMaxDistanceForRegion(call.residues))
    /\ pc' = "measured"
    /\ UNCHANGED <<format, fileContent, fragMapData, volumeOrigin, dxContent,
                   config, sampler, spheres, binary, call, previous,
                   regionFilter, statistics, heap, handedOut, manager, viewerWrapper>>

\* createRegionFilter(residues, options), for the same residues
CreateRegionFilterObject ==
    /\ pc = "measured"
    /\ regionFilter' = createRegionFilter(call.residues, call.options)
    /\ call' = [call EXCEPT !.name = "createRegionFilter"]
    /\ pc' = "created"
    /\ UNCHANGED <<format, fileContent, fragMapData, volumeOrigin, dxContent,
                   config, sampler, spheres, binary, previous,
                   regionDistance, statistics, heap, handedOut, manager, viewerWrapper>>

NextScale ==
    \/ GetMaxDistanceForRegion
    \/ CreateRegionFilterObject

SpecScale == InitScale /\ [][NextScale]_vars

\* C21: with adaptive distance enabled and base distance 5.0 the effective
\* maxDistance of createRegionFilter is 5.0 * (1 + regionExtent / 20), and
\* getMaxDistanceForRegion returns the same distance for the same residues
C21_SameEffectiveDistance ==
    (pc = "created"
        /\ OptionOr(call.options.adaptiveDistance, TRUE)
        /\ \A i \in DOMAIN call.residues : IsDefined(call.residues[i].coordinates)) =>
        /\ regionFilter.effectiveMaxDistance
              = (RegionBaseDistance
                    * (RegionSizeScale * Unit + calculateRegionSize(call.residues)))
                   \div (RegionSizeScale * Unit)
        /\ regionFilter.effectiveMaxDistance = regionDistance[1]



----------------------------------------------------------------------------
(* fragMapParser.js: calculateGridStatistics *)

\* the first pass over gridData[i..]: sum, min and max
RECURSIVE FirstPass(_, _, _)
FirstPass(gridData, i, acc) ==
    IF i > Len(gridData) THEN acc
    ELSE FirstPass(gridData, i + 1,
                   [sum |-> acc.sum + gridData[i],
                    min |-> Min(acc.min, gridData[i]),
                    max |-> Max(acc.max, gridData[i])])

\* the second pass over gridData[i..]: the sum of the squared differences
\* from the mean sum / n, in units of 1 / n^2
RECURSIVE SecondPass(_, _, _, _)
SecondPass(gridData, i, sum, sumSquaredDiff) ==
    IF i > Len(gridData) THEN sumSquaredDiff
    ELSE LET diff == Len(gridData) * gridData[i] - sum
         IN  SecondPass(gridData, i + 1, sum, sumSquaredDiff + diff * diff)

\* the statistics over the first half of the values only
sampledGridStatistics(gridData) ==
    LET sample == SubSeq(gridData, 1, (Len(gridData) + 1) \div 2)
        n == Len(sample)
        first == FirstPass(sample, 1, [sum |-> 0, min |-> PosInf, max |-> NegInf])
        variance == Score(SecondPass(sample, 1, first.sum, 0), n * n * n)
    IN  IF n = 0
        THEN [min |-> 0, max |-> 0, mean |-> Score(0, 1),
              variance |-> Score(0, 1), stdDev |-> 0]
        ELSE [min |-> first.min, max |-> first.max, mean |-> Score(first.sum, n),
              variance |-> variance, stdDev |-> Sqrt(variance.num \div variance.den)]

\* calculateGridStatistics: mean and variance are kept as exact fractions,
\* stdDev is the square root of the variance rounded down to 1/100
calculateGridStatistics(gridData) ==
    LET n == Len(gridData)
        first == FirstPass(gridData, 1, [sum |-> 0, min |-> PosInf, max |-> NegInf])
        variance == Score(SecondPass(gridData, 1, first.sum, 0), n * n * n)
    IN  IF n = 0
        THEN [min |-> 0, max |-> 0, mean |-> Score(0, 1),
              variance |-> Score(0, 1), stdDev |-> 0]
        ELSE [min |-> first.min, max |-> first.max, mean |-> Score(first.sum, n),
              variance |-> variance, stdDev |-> Sqrt(variance.num \div variance.den)]

\* grids of up to MaxValues values between -2.0 and 2.0
StatisticsValues == {0 - 2 * Unit, 0 - Unit, 0, Unit, 2 * Unit}
MaxValues == 5
StatisticsGrids == UNION {[1..n -> StatisticsValues] : n \in 0..MaxValues}

InitStatistics ==
    /\ pc = "grid"
    /\ format = "none"
    /\ fileContent = <<>>
    /\ \E gridData \in StatisticsGrids :
          fragMapData = Returned(NoGridInfo, gridData)
    /\ volumeOrigin = <<>>
    /\ dxContent = NoDx
    /\ config = NoConfig
    /\ sampler = NoSampler
    /\ spheres = <<>>
    /\ binary = NoBinary
    /\ call = NoCall
    /\ previous = NoPrevious
    /\ InitRest

\* calculateGridStatistics(gridData)
CalculateGridStatistics ==
    /\ pc = "grid"
    /\ statistics' = Some(calculateGridStatistics(fragMapData.gridData))
    /\ call' = [NoCall EXCEPT !.name = "calculateGridStatistics"]
    /\ pc' = "computed"
    /\ UNCHANGED <<format, fileContent, fragMapData, volumeOrigin, dxContent,
                   config, sampler, spheres, binary, previous,
                   regionFilter, regionDistance, heap, handedOut, manager, viewerWrapper>>

NextStatistics == CalculateGridStatistics

SpecStatistics == InitStatistics /\ [][NextStatistics]_vars

\* the sum of f over the indices in S
RECURSIVE SumOver(_, _)
SumOver(S, f) ==
    IF S = {} THEN 0
    ELSE LET i == CHOOSE j \in S : TRUE
         IN  f[i] + SumOver(S \ {i}, f)

\* the grid of the example: -2, -1, 0, 1, 2
ExampleGrid == <<0 - 2 * Unit, 0 - Unit, 0, Unit, 2 * Unit>>

\* C22: for a non-empty grid the statistics are the minimum, the maximum,
\* the mean and the population variance (with its square root) of all the
\* values, min <= mean <= max, and for -2, -1, 0, 1, 2 they are min -2,
\* max 2, mean 0, variance 2 and stdDev 1.41
C22_StatisticsOverAllValues ==
    (pc = "computed" /\ Len(fragMapData.gridData) > 0) =>
        LET values == fragMapData.gridData
            n == Len(values)
            stats == statistics[1]
            total == SumOver(DOMAIN values, values)
            squares == SumOver(DOMAIN values,
                               [i \in DOMAIN values |->
                                   (n * values[i] - total) * (n * values[i] - total)])
        IN  /\ \A i \in DOMAIN values : stats.min <= values[i] /\ values[i] <= stats.max
            /\ \E i \in DOMAIN values : stats.min = values[i]
            /\ \E i \in DOMAIN values : stats.max = values[i]
            /\ stats.mean.num * n = total * stats.mean.den
            /\ stats.variance.num * n * n * n = squares * stats.variance.den
            /\ stats.stdDev * stats.stdDev * stats.variance.den <= stats.variance.num
            /\ stats.variance.num
                  < (stats.stdDev + 1) * (stats.stdDev + 1) * stats.variance.den
            /\ stats.min * stats.mean.den <= stats.mean.num
            /\ stats.mean.num <= stats.max * stats.mean.den
            /\ values = ExampleGrid =>
                  /\ stats.min = 0 - 2 * Unit /\ stats.max = 2 * Unit
                  /\ stats.mean.num = 0
                  /\ stats.variance.num = 2 * Unit * Unit * stats.variance.den
                  /\ stats.stdDev = Sqrt(2 * Unit * Unit)

\* the statistics of the example grid have been computed
C22_Witness ==
    /\ pc = "computed"
    /\ fragMapData.gridData = ExampleGrid
    /\ statistics # <<>>



----------------------------------------------------------------------------
(* Arrays by reference: which array each call writes to *)

\* The heap is the sequence of the arrays allocated so far; a reference is
\* an index into it.  An operation on arrays returns the heap it leaves and
\* the reference of its result.

\* a new array: an array literal filled by push, or the result of slice, map
\* or spread
ArrayCopy(h, content) == [heap |-> Append(h, content), ref |-> Len(h) + 1]

\* array.sort(...): the array at ref is rearranged in place
ArraySort(h, ref, content) == [heap |-> [h EXCEPT ![ref] = content], ref |-> ref]

\* a filter that removes the elements from the array it is called on
ArrayFilterInPlace(h, ref, content) ==
    [heap |-> [h EXCEPT ![ref] = content], ref |-> ref]

\* array.filter(...): the elements kept go to a new array, the array at ref
\* is left alone
ArrayFilter(h, ref, content) == [heap |-> Append(h, content), ref |-> Len(h) + 1]

\* the value of a step, computed once and named in what follows it
Let(value, In(_)) == CHOOSE result \in {In(v) : v \in {value}} : TRUE

\* generateSpheresFromGrid of 3dmolFragMapLoader.js, reading data.gridData
\* from the heap
generateSpheresFromGridOnHeap(h, grid, data, cfg) ==
    Let(ArrayCopy(h, PushedSpheres([data EXCEPT !.gridData = h[grid]], cfg)),
        LAMBDA pushed :
    Let(ArraySort(pushed.heap, pushed.ref,
                  SortSpheres(pushed.heap[pushed.ref],
                              ThresholdMode(cfg) = "lower")),
        LAMBDA sorted :
    Let(LimitSpheres(sorted.heap[sorted.ref], cfg),
        LAMBDA limited :
            IF Len(limited) < Len(sorted.heap[sorted.ref])
            THEN ArrayCopy(sorted.heap, limited)
            ELSE sorted)))

\* getFragMapSpheres, reading fragMapData.spheres from the heap; with
\* maxSpheres 0 (falsy: no limit) the result is filteredSpheres
getFragMapSpheresOnHeap(h, stored, appFragMapType, isoValue, options) ==
    Let([t \in {SilcsTypeOf(appFragMapType)} |-> h[stored]],
        LAMBDA fragMaps :
    Let(ArrayFilter(h, stored,
                    getFragMapSpheres(appFragMapType, isoValue,
                                      [options EXCEPT !.maxSpheres = Some(0)],
                                      fragMaps)),
        LAMBDA filteredSpheres :
    Let(getFragMapSpheres(appFragMapType, isoValue, options, fragMaps),
        LAMBDA result :
    Let(ArraySort(filteredSpheres.heap, filteredSpheres.ref,
                  SortBy(filteredSpheres.heap[filteredSpheres.ref],
                         LAMBDA a, b : LT(a.energy, b.energy))),
        LAMBDA sorted :
            IF SilcsTypeOf(appFragMapType) = "" THEN ArrayCopy(h, <<>>)
            ELSE IF Len(result) < Len(filteredSpheres.heap[filteredSpheres.ref])
            THEN ArrayCopy(sorted.heap, result)
            ELSE filteredSpheres))))

\* filterSpheresByProximity: the input array itself without residues, a new
\* array otherwise
filterSpheresByProximityOnHeap(h, points, residues, maxDistance) ==
    IF Len(residues) = 0 THEN [heap |-> h, ref |-> points]
    ELSE ArrayCopy(h, filterSpheresByProximity(h[points], residues, maxDistance))

\* weightSpheresByEnergy: filter, map, then a sort of the mapped array
weightSpheresByEnergyOnHeap(h, points, energyThreshold) ==
    Let(ArrayFilter(h, points,
                    SelectSeq(h[points], LAMBDA s : s.energy <= energyThreshold)),
        LAMBDA passing :
    Let(ArrayCopy(passing.heap,
                  WeightedSpheres(passing.heap[passing.ref], energyThreshold)),
        LAMBDA mapped :
            ArraySort(mapped.heap, mapped.ref,
                      SortByCombinedScore(mapped.heap[mapped.ref]))))

\* the filter function of createRegionFilter: proximity, energy, slice
RegionFilterOnHeap(h, region, points) ==
    Let(filterSpheresByProximityOnHeap(h, points, region.residues,
                                       region.effectiveMaxDistance),
        LAMBDA proximityFiltered :
    Let(weightSpheresByEnergyOnHeap(proximityFiltered.heap,
                                    proximityFiltered.ref,
                                    region.energyThreshold),
        LAMBDA energyFiltered :
            ArrayCopy(energyFiltered.heap,
                      Slice(energyFiltered.heap[energyFiltered.ref],
                            region.maxSpheres))))

\* the first part of enhancedSpatialFilter: the high-energy and the regular
\* spheres, as two arrays
SeparateOnHeap(h, points, options) ==
    Let(ArrayCopy(h, <<>>),
        LAMBDA empty :
    Let(ArrayCopy(empty.heap, h[points]),
        LAMBDA spread :
    Let(ArrayCopy(spread.heap, [k \in DOMAIN h[points] |-> h[points][k].energy]),
        LAMBDA energies :
    Let(ArraySort(energies.heap, energies.ref, SortedEnergies(h[points])),
        LAMBDA sortedEnergies :
    Let(ArrayFilter(sortedEnergies.heap, points,
                    highEnergySpheres(h[points], options)),
        LAMBDA high :
    Let(ArrayFilter(high.heap, points,
                    regularSpheres(high.heap[points], options)),
        LAMBDA regular :
            IF SeparatesHighEnergy(h[points], options)
            THEN [heap |-> regular.heap, high |-> high.ref,
                  regular |-> regular.ref]
            ELSE [heap |-> spread.heap, high |-> empty.ref,
                  regular |-> spread.ref]))))))

\* enhancedSpatialFilter on the array at points
enhancedSpatialFilterOnHeap(h, points, residues, options) ==
    Let(SeparateOnHeap(h, points, options),
        LAMBDA separated :
    Let(RegionFilterOnHeap(separated.heap,
                           EnhancedRegionFilter(h[points], residues, options),
                           separated.regular),
        LAMBDA filteredRegular :
    Let(ArrayCopy(filteredRegular.heap,
                  filteredRegular.heap[separated.high]
                      \o filteredRegular.heap[filteredRegular.ref]),
        LAMBDA combined :
    Let(ArrayCopy(combined.heap,
                  [k \in DOMAIN combined.heap[combined.ref] |->
                      RescoredSphere(combined.heap[combined.ref][k],
                                     residues, options)]),
        LAMBDA rescored :
    Let(ArraySort(rescored.heap, rescored.ref,
                  SortByCombinedScore(rescored.heap[rescored.ref])),
        LAMBDA sorted :
            ArrayCopy(sorted.heap,
                      Slice(sorted.heap[sorted.ref],
                            EnhancedOptions(options).maxSpheres)))))))

\* one grid of two values, the sphere list precomputed for it and a list of
\* two points for the region filter
FrameValues == {0 - 2 * Unit, 0 - Unit}
FrameGrids ==
    {GridOf(<<2, 1, 1>>, <<0, 0, 0>>, Unit, values) :
        values \in [1..2 -> FrameValues]}
FrameConfigs ==
    {[NoConfig EXCEPT !.id = "hydrophobic",
                      !.isoValue = Some(0 - DefaultGridSpacing),
                      !.thresholdMode = "lower",
                      !.maxSpheres = ms] : ms \in {Undefined, Some(1)}}
FramePoints ==
    {InputSphere(Unit, 0, 0, 0 - Unit), InputSphere(3 * Unit, 0, 0, 0 - 2 * Unit)}
FramePointSets == [1..2 -> FramePoints]
FrameResidues == {<<>>, <<Residue(0)>>}
FrameOptions ==
    {NoFilterOptions,
     [NoFilterOptions EXCEPT !.maxSpheres = Some(1)],
     [NoFilterOptions EXCEPT !.preserveHighEnergy = Some(FALSE)]}

MaxCalls == 2

\* an array handed to a caller or stored, with the content it had then
Handed(ref, content, from) == [ref |-> ref, content |-> content, from |-> from]

\* the grid values, the stored sphere list of the FragMap and the points,
\* in the order InitFrame allocates them
InitialArrays(data, points) ==
    <<data.gridData,
      buildGenerateSpheresFromGrid(data.gridData, data.gridInfo, BuildIsovalue),
      points>>

InitFrame ==
    /\ pc = "arrays"
    /\ format = "none"
    /\ fileContent = <<>>
    /\ fragMapData \in FrameGrids
    /\ volumeOrigin = <<>>
    /\ dxContent = NoDx
    /\ config \in FrameConfigs
    /\ sampler = NoSampler
    /\ spheres = <<>>
    /\ binary = NoBinary
    /\ call = NoCall
    /\ previous = NoPrevious
    /\ regionFilter = NoFilter
    /\ regionDistance = <<>>
    /\ statistics = <<>>
    /\ manager = NoManager
    /\ viewerWrapper = NoViewer
    /\ \E points \in FramePointSets :
          /\ heap = InitialArrays(fragMapData, points)
          /\ handedOut =
                 [k \in 1..3 |->
                     Handed(k, InitialArrays(fragMapData, points)[k],
                            <<"gridData", "fragMaps", "spheres">>[k])]

\* the call returned the array at result.ref
Return(result, name) ==
    /\ heap' = result.heap
    /\ handedOut' = Append(handedOut,
                           Handed(result.ref, result.heap[result.ref], name))
    /\ spheres' = result.heap[result.ref]
    /\ call' = [NoCall EXCEPT !.name = name]

GridArray == handedOut[1].ref
StoredArray == handedOut[2].ref

\* generateSpheresFromGrid(data, config) of 3dmolFragMapLoader.js
GenerateSpheresFromGridOnHeap ==
    /\ pc = "arrays"
    /\ Len(handedOut) < 3 + MaxCalls
    /\ \E result \in {generateSpheresFromGridOnHeap(heap, GridArray,
                                                     fragMapData, config)} :
          Return(result, "generateSpheresFromGrid")
    /\ UNCHANGED <<pc, format, fileContent, fragMapData, volumeOrigin, dxContent,
                   config, sampler, binary, previous,
                   regionFilter, regionDistance, statistics,
                   manager, viewerWrapper>>

\* getFragMapSpheres(config.id, config.isoValue, options)
GetFragMapSpheresOnHeap ==
    /\ pc = "arrays"
    /\ Len(handedOut) < 3 + MaxCalls
    /\ \E options \in SampleOptions :
          \E result \in {getFragMapSpheresOnHeap(heap, StoredArray, config.id,
                                                   config.isoValue[1], options)} :
              Return(result, "getFragMapSpheres")
    /\ UNCHANGED <<pc, format, fileContent, fragMapData, volumeOrigin, dxContent,
                   config, sampler, binary, previous,
                   regionFilter, regionDistance, statistics,
                   manager, viewerWrapper>>

\* enhancedSpatialFilter(spheres, residues, options), on the points or on
\* what an earlier call returned for them
EnhancedSpatialFilterOnHeap ==
    /\ pc = "arrays"
    /\ Len(handedOut) < 3 + MaxCalls
    /\ \E k \in DOMAIN handedOut, residues \in FrameResidues,
          options \in FrameOptions :
          /\ handedOut[k].from \in {"spheres", "enhancedSpatialFilter"}
          /\ \E result \in {enhancedSpatialFilterOnHeap(heap, handedOut[k].ref,
                                                          residues, options)} :
                 Return(result, "enhancedSpatialFilter")
    /\ UNCHANGED <<pc, format, fileContent, fragMapData, volumeOrigin, dxContent,
                   config, sampler, binary, previous,
                   regionFilter, regionDistance, statistics,
                   manager, viewerWrapper>>

NextFrame ==
    \/ GenerateSpheresFromGridOnHeap
    \/ GetFragMapSpheresOnHeap
    \/ EnhancedSpatialFilterOnHeap

SpecFrame == InitFrame /\ [][NextFrame]_vars

\* C23: sampling and region filtering leave the grid values and every array
\* handed out or stored so far as they were, in content and in order
C23_InputsAreNotModified ==
    (pc = "arrays") =>
        /\ heap[GridArray] = fragMapData.gridData
        /\ \A k \in DOMAIN handedOut :
              heap[handedOut[k].ref] = handedOut[k].content

\* getFragMapSpheres has sorted and cut its filtered spheres, and the region
\* filter has run on what an earlier call returned
C23_Witness ==
    /\ pc = "arrays"
    /\ \E k \in DOMAIN handedOut :
          /\ handedOut[k].from = "getFragMapSpheres"
          /\ Len(handedOut[k].content) < Len(heap[StoredArray])
          /\ Len(handedOut[k].content) > 0
    /\ Len(handedOut) = 3 + MaxCalls



----------------------------------------------------------------------------
(* 3dmolFragMapLoader.js and FragMapManager: the sphere shapes in the viewer *)

\* viewerWrapper.shapeIds is a Map from a group key to its shape handles,
\* held as the set of its entries; .get(key) is undefined without an entry
HasGroup(viewer, shapeGroupId) ==
    \E e \in viewer.shapeIds : e.group = shapeGroupId
HandlesOf(viewer, shapeGroupId) ==
    (CHOOSE e \in viewer.shapeIds : e.group = shapeGroupId).handles

\* remove3DmolFragMap: the handles of the group are removed and its entry
\* deleted; without an entry viewer.removeAllShapes() is called
remove3DmolFragMap(viewer, shapeGroupId) ==
    IF HasGroup(viewer, shapeGroupId)
    THEN [viewer EXCEPT
             !.shapes = @ \ HandlesOf(viewer, shapeGroupId),
             !.shapeIds = {e \in @ : e.group # shapeGroupId}]
    ELSE [viewer EXCEPT !.shapes = {}]

\* `fragmap_${fragMapId}_${Date.now()}`
ShapeGroupId(fragMapId, now) == <<fragMapId, now>>

\* load3DmolSphereFragMap once loadFragMapData has resolved and spheres were
\* generated: one shape per sphere (one sphere here), registered under the
\* group key; shapeIds.set replaces an entry with the same key
load3DmolSphereFragMap(viewer, fragMapId) ==
    LET shapeGroupId == ShapeGroupId(fragMapId, viewer.now)
        handle == [fragMapId |-> fragMapId, group |-> shapeGroupId,
                   n |-> viewer.handles]
    IN  [viewer EXCEPT
            !.shapes = @ \cup {handle},
            !.shapeIds = {e \in @ : e.group # shapeGroupId}
                            \cup {[group |-> shapeGroupId, handles |-> {handle}]},
            !.handles = @ + 1,
            !.issued = @ \cup {shapeGroupId}]

\* the manager and the viewer, as one call or effect leaves them
World(m, v) == [manager |-> m, viewer |-> v]

\* updateFragMapVisualization(fragMapId, isActivating, forceRefresh) up to
\* its await of the load.  remove3DmolFragMap has no await of its own, so
\* the cleanup is done when the call first yields, and no other call for the
\* same FragMap starts before activeRepsRef.delete has run.
updateFragMapVisualization(w, fragMapId, isActivating, forceRefresh) ==
    LET m == w.manager
        currentRepRef == m.activeReps[fragMapId]
        cleaned ==
            IF IsDefined(currentRepRef) \/ forceRefresh
            THEN World([m EXCEPT !.activeReps[fragMapId] = Undefined],
                       IF IsDefined(currentRepRef)
                       THEN remove3DmolFragMap(w.viewer, currentRepRef[1])
                       ELSE w.viewer)
            ELSE w
    IN  IF fragMapId \in m.processing /\ ~forceRefresh THEN w
        ELSE IF ~forceRefresh /\ isActivating /\ IsDefined(currentRepRef) THEN w
        ELSE IF ~forceRefresh /\ ~isActivating /\ ~IsDefined(currentRepRef)
                  /\ fragMapId \notin m.closureActiveFragMaps THEN w
        ELSE IF isActivating
        THEN World([cleaned.manager EXCEPT
                       !.processing = @ \cup {fragMapId},
                       !.calls = @ \cup {[fragMapId |-> fragMapId,
                                          n |-> m.started]},
                       !.started = @ + 1],
                   cleaned.viewer)
        ELSE World([cleaned.manager EXCEPT !.processing = @ \ {fragMapId}],
                   cleaned.viewer)

\* fragMapTypes.forEach(fragMap => updateFragMapVisualization(fragMap.id,
\* activeFragMaps.has(fragMap.id))), from fragMapTypes[i] on
RECURSIVE SynchronizeFrom(_, _)
SynchronizeFrom(w, i) ==
    IF i > Len(FragMapIds) THEN w
    ELSE SynchronizeFrom(
             updateFragMapVisualization(
                 w, FragMapIds[i],
                 FragMapIds[i] \in w.manager.activeFragMaps, FALSE),
             i + 1)

\* activeFragMaps.forEach(fragMapId => updateFragMapVisualization(fragMapId,
\* true, true)), from fragMapTypes[i] on
RECURSIVE RefreshFrom(_, _)
RefreshFrom(w, i) ==
    IF i > Len(FragMapIds) THEN w
    ELSE RefreshFrom(
             IF FragMapIds[i] \in w.manager.activeFragMaps
             THEN updateFragMapVisualization(w, FragMapIds[i], TRUE, TRUE)
             ELSE w,
             i + 1)

MaxEvents == 3
MaxClock == 1

InitManager ==
    /\ pc = "mounted"
    /\ format = "none"
    /\ fileContent = <<>>
    /\ fragMapData = NoData
    /\ volumeOrigin = <<>>
    /\ dxContent = NoDx
    /\ config = NoConfig
    /\ sampler = NoSampler
    /\ spheres = <<>>
    /\ binary = NoBinary
    /\ call = NoCall
    /\ previous = NoPrevious
    /\ InitRest

\* the manager's actions leave the rest of the state alone
ManagerFrame ==
    UNCHANGED <<pc, format, fileContent, fragMapData, volumeOrigin, dxContent,
                config, sampler, spheres, binary, previous,
                regionFilter, regionDistance, statistics, heap, handedOut>>

\* a FragMap is toggled: activeFragMaps changes and the first effect runs
ToggleFragMap ==
    /\ pc = "mounted"
    /\ manager.events < MaxEvents
    /\ \E fragMapId \in FragMapIdSet :
          LET toggled ==
                  [manager EXCEPT
                      !.activeFragMaps =
                          IF fragMapId \in @ THEN @ \ {fragMapId}
                          ELSE @ \cup {fragMapId},
                      !.events = @ + 1]
              after == SynchronizeFrom(World(toggled, viewerWrapper), 1)
          IN  /\ manager' = after.manager
              /\ viewerWrapper' = after.viewer
              /\ call' = [NoCall EXCEPT !.name = "toggleFragMap"]
    /\ ManagerFrame

\* an isovalue or the protein selection changes: the callback is created
\* anew with the activeFragMaps of this render, and both effects run
ChangeIsoValueOrSelection ==
    /\ pc = "mounted"
    /\ manager.events < MaxEvents
    /\ LET changed == [manager EXCEPT
                          !.closureActiveFragMaps = manager.activeFragMaps,
                          !.events = @ + 1]
           synchronized == SynchronizeFrom(World(changed, viewerWrapper), 1)
           after == RefreshFrom(synchronized, 1)
       IN  /\ manager' = after.manager
           /\ viewerWrapper' = after.viewer
           /\ call' = [NoCall EXCEPT !.name = "setIsoValue"]
    /\ ManagerFrame

\* the load of a call in flight ends: with spheres, which are added to the
\* viewer and recorded in activeRepsRef; with none (null); or with an error.
\* The finally block then deletes the id from processingRef.
LoadSettles ==
    /\ pc = "mounted"
    /\ \E c \in manager.calls, outcome \in {"spheres", "none", "thrown"} :
          /\ viewerWrapper' =
                 IF outcome = "spheres"
                 THEN load3DmolSphereFragMap(viewerWrapper, c.fragMapId)
                 ELSE viewerWrapper
          /\ manager' =
                 [manager EXCEPT
                     !.activeReps[c.fragMapId] =
                         IF outcome = "spheres"
                         THEN Some(ShapeGroupId(c.fragMapId, viewerWrapper.now))
                         ELSE @,
                     !.processing = @ \ {c.fragMapId},
                     !.calls = @ \ {c}]
          /\ call' = [NoCall EXCEPT !.name = "load3DmolSphereFragMap"]
    /\ ManagerFrame

\* Date.now() moves on
Tick ==
    /\ pc \in {"mounted", "viewer"}
    /\ viewerWrapper.now < MaxClock
    /\ viewerWrapper' = [viewerWrapper EXCEPT !.now = @ + 1]
    /\ call' = [NoCall EXCEPT !.name = "Date.now"]
    /\ UNCHANGED manager
    /\ ManagerFrame

NextManager ==
    \/ ToggleFragMap
    \/ ChangeIsoValueOrSelection
    \/ LoadSettles
    \/ Tick

SpecManager == InitManager /\ [][NextManager]_vars

\* C24: whenever no updateFragMapVisualization call is in flight, every
\* sphere shape in the viewer belongs to a FragMap of activeFragMaps
C24_ViewerMatchesActiveFragMaps ==
    (pc = "mounted" /\ manager.calls = {}) =>
        \A handle \in viewerWrapper.shapes :
            handle.fragMapId \in manager.activeFragMaps



\* C25: for each FragMap at most one updateFragMapVisualization call is
\* between its entry into processingRef and its finally block
C25_OneCallPerFragMap ==
    (pc = "mounted") =>
        \A fragMapId \in FragMapIdSet :
            Cardinality({c \in manager.calls : c.fragMapId = fragMapId}) <= 1



----------------------------------------------------------------------------
(* load3DmolSphereFragMap and remove3DmolFragMap called on one viewer *)

MaxShapes == 3

InitViewer ==
    /\ pc = "viewer"
    /\ format = "none"
    /\ fileContent = <<>>
    /\ fragMapData = NoData
    /\ volumeOrigin = <<>>
    /\ dxContent = NoDx
    /\ config = NoConfig
    /\ sampler = NoSampler
    /\ spheres = <<>>
    /\ binary = NoBinary
    /\ call = NoCall
    /\ previous = NoPrevious
    /\ InitRest

\* load3DmolSphereFragMap(viewerWrapper, fragMapId, config) returns a group
LoadSphereFragMap ==
    /\ pc = "viewer"
    /\ viewerWrapper.handles < MaxShapes
    /\ \E fragMapId \in FragMapIdSet :
          /\ viewerWrapper' = load3DmolSphereFragMap(viewerWrapper, fragMapId)
          /\ call' = [NoCall EXCEPT
                         !.name = "load3DmolSphereFragMap",
                         !.options = ShapeGroupId(fragMapId, viewerWrapper.now)]
    /\ UNCHANGED manager
    /\ ManagerFrame

\* remove3DmolFragMap(viewerWrapper, shapeGroupId), for a group a load has
\* returned; call.spheres keeps the shapes the viewer held before
RemoveFragMap ==
    /\ pc = "viewer"
    /\ \E shapeGroupId \in viewerWrapper.issued :
          /\ viewerWrapper' = remove3DmolFragMap(viewerWrapper, shapeGroupId)
          /\ call' = [NoCall EXCEPT !.name = "remove3DmolFragMap",
                                    !.spheres = viewerWrapper.shapes,
                                    !.options = shapeGroupId]
    /\ UNCHANGED manager
    /\ ManagerFrame

NextViewer ==
    \/ LoadSphereFragMap
    \/ RemoveFragMap
    \/ Tick

SpecViewer == InitViewer /\ [][NextViewer]_vars

\* C28: remove3DmolFragMap for one group leaves the shapes created for every
\* other group in the viewer
C28_RemovesOnlyItsGroup ==
    (pc = "viewer" /\ call.name = "remove3DmolFragMap") =>
        \A handle \in call.spheres :
            handle.group # call.options => handle \in viewerWrapper.shapes



----------------------------------------------------------------------------
(* The spheres enhancedSpatialFilter sets aside as high-energy *)

\* the call is one of enhancedSpatialFilter with preserveHighEnergy in effect
PreservesHighEnergy ==
    /\ call.name = "enhancedSpatialFilter"
    /\ EnhancedOptions(call.options).preserveHighEnergy

\* how many entries of a sequence are the given point
Copies(points, sphere) ==
    Cardinality({k \in DOMAIN points : SamePoint(points[k], sphere)})

\* C27: with preserveHighEnergy, every input sphere at or below the
\* highEnergyPercentile threshold is in the output of enhancedSpatialFilter
C27_HighEnergySpheresAreKept ==
    (pc = "filtered" /\ PreservesHighEnergy) =>
        \A k \in DOMAIN highEnergySpheres(call.spheres, call.options) :
            LET sphere == highEnergySpheres(call.spheres, call.options)[k]
            IN  Copies(spheres, sphere)
                    >= Copies(highEnergySpheres(call.spheres, call.options), sphere)



\* C29: with preserveHighEnergy and a non-empty input, every input sphere is
\* in exactly one of the high-energy set and the regular set
C29_HighAndRegularPartitionInput ==
    (pc \in {"filtered", "thrown"} /\ PreservesHighEnergy
        /\ Len(call.spheres) > 0) =>
        \A k \in DOMAIN call.spheres :
            Copies(highEnergySpheres(call.spheres, call.options), call.spheres[k])
                + Copies(regularSpheres(call.spheres, call.options), call.spheres[k])
                = Copies(call.spheres, call.spheres[k])



----------------------------------------------------------------------------
(* The spheres fragMapParser.js generates from a grid *)

\* the spheres are those of generateSpheresFromGrid of fragMapParser.js
ParserSampled ==
    pc \in {"sampled", "resampled"} /\ sampler.name = "parser"

\* the grid coordinate a sphere position stands for: position = origin +
\* coordinate * spacing, with the origin [0, 0, 0]
GridCoordinate(position) == position \div ParserGridSpacing

\* z * nx * ny + y * nx + x for the grid coordinates of a sphere
GridIndexOf(sphere) ==
    LET nx == OrDefault(fragMapData.gridInfo.nx, NativeDefaultDim)
        ny == OrDefault(fragMapData.gridInfo.ny, NativeDefaultDim)
    IN  GridCoordinate(sphere.z) * nx * ny + GridCoordinate(sphere.y) * nx
            + GridCoordinate(sphere.x)

\* C30: generateSpheresFromGrid of fragMapParser.js returns at most 5000
\* spheres, each with energy <= isovalue and gridIndex = z*nx*ny + y*nx + x,
\* in strictly increasing order of gridIndex
C30_ParserSpheresCappedAndOrdered ==
    ParserSampled =>
        /\ Len(spheres) <= ParserMaxSpheres
        /\ \A k \in DOMAIN spheres :
              /\ LE(spheres[k].energy, config.isoValue[1])
              /\ spheres[k].gridIndex = GridIndexOf(spheres[k])
              /\ spheres[k].x = GridCoordinate(spheres[k].x) * ParserGridSpacing
              /\ spheres[k].y = GridCoordinate(spheres[k].y) * ParserGridSpacing
              /\ k > 1 => spheres[k - 1].gridIndex < spheres[k].gridIndex

\* a grid with more points at or below the isovalue than the limit was
\* sampled, and spheres of both rows were generated
C30_Witness ==
    /\ ParserSampled
    /\ Cardinality({i \in DOMAIN fragMapData.gridData :
                       LE(fragMapData.gridData[i], config.isoValue[1])})
           > ParserMaxSpheres
    /\ Len(spheres) > 1
    /\ \E k \in DOMAIN spheres : spheres[k].y > 0
    /\ \E k \in DOMAIN spheres : spheres[k].y = 0



----------------------------------------------------------------------------
(* loadFragMapData: the binary file first, the DX file as the fallback *)

\* loadFragMapData has returned
LoadReturned == pc \in {"loaded", "sampled"}

\* the binary index is served and the binary file loads and passes validation
BinaryUsable ==
    /\ binary.available
    /\ binary.file.status = "returned"
    /\ validateFragMapData(binary.file)

\* what the DX file gives: Thrown when it is not served or cannot be parsed
DxLoaded == tryLoadFile(format = "dx", fileContent)

\* the DX file is fetched, parsed and passes validation
DxUsable == DxLoaded.status = "returned" /\ validateFragMapData(DxLoaded)

\* C26: loadFragMapData returns binary-loaded data only when it passes
\* validation, falls back to the DX file otherwise, and throws only for an
\* unknown id or when the DX file cannot be fetched, parsed or validated
C26_BinaryFirstThenDx ==
    /\ LoadReturned =>
          /\ config.id \in FragMapTypeIds
          /\ IF fragMapData = binary.file THEN BinaryUsable
             ELSE ~BinaryUsable /\ DxUsable /\ fragMapData = DxLoaded
    /\ pc = "failed" =>
          \/ config.id \notin FragMapTypeIds
          \/ ~BinaryUsable /\ ~DxUsable

\* the binary index is served but the binary data fails validation, and the
\* loader has returned the data of the DX file
C26_Witness ==
    /\ pc = "loaded"
    /\ binary.available
    /\ binary.file.status = "returned"
    /\ ~validateFragMapData(binary.file)
    /\ fragMapData = DxLoaded

====
